---- MODULE Spec2Model ----
(***************************************************************************)
(* Model of the BPE trainer of tokenizers/src/models/bpe/trainer.rs.       *)
(*                                                                         *)
(* A string is a sequence of one-character strings (<<"a","b">> is "ab"),  *)
(* a token id is a natural number counted from 0 as in the source, so      *)
(* id_to_word[i] of the source is id_to_word[i + 1] here.  Word indices    *)
(* (the elements of a Merge's pos) are counted from 1.                     *)
(***************************************************************************)
EXTENDS Integers, Sequences, FiniteSets, Bags, TLC

VARIABLES
    self,            \* the BpeTrainer: its configuration fields
    files,           \* special_tokens.txt, alphabet.txt, merges.txt as read
    word_counts,     \* the word -> count map, in the order it is iterated
    word_to_id,      \* HashMap<String, u32>
    id_to_word,      \* Vec<String>
    words,           \* Vec<Word>
    counts,          \* Vec<u64>
    pair_counts,     \* HashMap<Pair, i64>
    where_to_update, \* HashMap<Pair, HashSet<usize>>
    queue,           \* the Merge entries (HashMap during replay, BinaryHeap after)
    top,             \* the entry popped by the running iteration
    merges,          \* Vec<(Pair, u32)>
    merge_idx,       \* number of merges.txt entries replayed so far
    encoded,         \* the words as tokenize_words returned them
    model,           \* the BPE model the result is transferred to
    pc,              \* position in do_train_original / do_train_extend
    panic,           \* the message of the panic! that ended the run, if any
    self_words,      \* self.words: the word counts feed stored in the trainer
    feed,            \* the running call of feed: its arguments, partial results
    region           \* the running parallel rewrite: its tasks and their changes

vars == <<self, files, word_counts, word_to_id, id_to_word, words, counts,
          pair_counts, where_to_update, queue, top, merges, merge_idx,
          encoded, model, pc, panic, self_words, feed, region>>

\* ------------------------------------------------------------------ bounds

\* the characters of a corpus, and the longest word
MaxTotalChars == 4
MaxWordLen == MaxTotalChars - 1
\* the sum of the counts of a corpus, and the most words
MaxTotalCount == 3
MaxWords == MaxTotalCount - 1
\* the largest min_frequency, max_token_length and small vocab_size tried
MaxMinFreq == 2
MaxTokenLength == 2
MaxVocabSize == 3
\* the most lines of merges.txt
MaxMerges == 2
\* the sequences one call of feed is given, and the words of a sequence
MaxSequences == 2
MaxSequenceWords == 2

\* ------------------------------------------------------------------ strings

Last(s) == s[Len(s)]

\* str::starts_with
StartsWith(s, p) ==
    /\ Len(p) <= Len(s)
    /\ SubSeq(s, 1, Len(p)) = p

\* char as u32, for the characters the model uses
CharCode(c) ==
    CASE c = "#" -> 35
      [] c = "$" -> 36
      [] c = "9" -> 57
      [] c = "a" -> 97
      [] c = "b" -> 98
      [] c = "G" -> 288     \* U+0120

\* char::is_ascii_digit
IsAsciiDigit(c) == c = "9"

\* tuple order on Pair = (u32, u32): -1, 0, 1
PairCmp(p, q) ==
    IF p[1] /= q[1] THEN (IF p[1] < q[1] THEN -1 ELSE 1)
    ELSE IF p[2] /= q[2] THEN (IF p[2] < q[2] THEN -1 ELSE 1)
    ELSE 0

\* the order a derived Ord would give: by count, then by pair as it is
MergeCmpDerived(m, o) ==
    IF m.count /= o.count
    THEN (IF m.count < o.count THEN -1 ELSE 1)
    ELSE PairCmp(m.pair, o.pair)

\* impl Ord for Merge: by count, then by pair in reverse
MergeCmp(m, o) ==
    IF m.count /= o.count
    THEN (IF m.count < o.count THEN -1 ELSE 1)
    ELSE PairCmp(o.pair, m.pair)

\* usize::MAX and the wrap of `as u64` on a negative i64: TLC's integers are
\* 32 bits wide, so 2^30 stands for both; every count and every length of the
\* model is far below it.
UsizeMax == 2^30
U64Modulus == 2^30
AsU64(v) == IF v < 0 THEN U64Modulus + v ELSE v

\* ------------------------------------------------------------------ maps

Get(m, k, default) == IF k \in DOMAIN m THEN m[k] ELSE default
Insert(m, k, v) == [x \in (DOMAIN m) \cup {k} |-> IF x = k THEN v ELSE m[x]]
EmptyMap == [x \in {} |-> 0]

\* ------------------------------------------------------------------ files

\* one "<symbol> <id>" line
Line(tok, id) == [token |-> tok, token_id |-> id]

\* panic!(msg, ..): the message and the symbol it names, <<>> when it names none
Panic(msg, tok) == [msg |-> msg, token |-> tok]
NoPanic == Panic("", <<>>)

RECURSIVE LoadUnchecked(_, _, _)
\* the lines in order, whatever their ids and symbols
LoadUnchecked(lines, w2id, id2w) ==
    IF lines = <<>> THEN [w2id |-> w2id, id2w |-> id2w, ok |-> TRUE, err |-> NoPanic]
    ELSE LoadUnchecked(Tail(lines), Insert(w2id, Head(lines).token, Head(lines).token_id),
                       Append(id2w, Head(lines).token))

\* add_special_tokens: the lines in order; a line whose id is not the current
\* length, or whose token is already there, panics.
RECURSIVE LoadSpecialTokens(_, _, _)
LoadSpecialTokens(lines, w2id, id2w) ==
    IF lines = <<>> THEN [w2id |-> w2id, id2w |-> id2w, ok |-> TRUE, err |-> NoPanic]
    ELSE LET l == Head(lines) IN
         IF l.token_id /= Len(id2w)
         THEN [w2id |-> w2id, id2w |-> id2w, ok |-> FALSE,
               err |-> Panic("Expected token_id to be {}, but got {} for token '{}'", l.token)]
         ELSE IF l.token \in DOMAIN w2id
         THEN [w2id |-> w2id, id2w |-> id2w, ok |-> FALSE,
               err |-> Panic("Token '{}' already exists in vocabulary", l.token)]
         ELSE LoadSpecialTokens(Tail(lines), Insert(w2id, l.token, l.token_id),
                                Append(id2w, l.token))

\* the alphabet.txt loop of do_train_extend: no check that the token is new
RECURSIVE LoadAlphabet(_, _, _)
LoadAlphabet(lines, w2id, id2w) ==
    IF lines = <<>> THEN [w2id |-> w2id, id2w |-> id2w, ok |-> TRUE, err |-> NoPanic]
    ELSE LET l == Head(lines) IN
         IF Len(id2w) /= l.token_id
         THEN [w2id |-> w2id, id2w |-> id2w, ok |-> FALSE,
               err |-> Panic("Expected token_id to be {}, but got {}", <<>>)]
         ELSE LoadAlphabet(Tail(lines), Insert(w2id, l.token, l.token_id),
                           Append(id2w, l.token))

\* ------------------------------------------------------------------ options

\* Option<T>: <<>> is None, <<v>> is Some(v)
NoneOpt == <<>>
Some(v) == <<v>>
IsSome(o) == o /= <<>>
Unwrap(o) == o[1]

\* ------------------------------------------------------------------ alphabet

Range(s) == {s[i] : i \in DOMAIN s}

\* the number of times character c occurs in word
Occurrences(word, c) == Cardinality({j \in DOMAIN word : word[j] = c})

RECURSIVE CharWeight(_, _)
\* the tally of compute_alphabet for character c over the entries of wc
CharWeight(wc, c) ==
    IF wc = <<>> THEN 0
    ELSE Head(wc)[2] * Occurrences(Head(wc)[1], c) + CharWeight(Tail(wc), c)

\* the tallied weights alone
AlphabetMapTallied(wc, initial) ==
    LET seen == UNION {Range(wc[i][1]) : i \in DOMAIN wc} IN
    [c \in seen \cup initial |-> CharWeight(wc, c)]

\* the `alphabet` map of compute_alphabet: tallied weights, usize::MAX for
\* the characters of initial_alphabet
AlphabetMap(wc, initial) ==
    LET seen == UNION {Range(wc[i][1]) : i \in DOMAIN wc} IN
    [c \in seen \cup initial |->
        IF c \in initial THEN UsizeMax ELSE CharWeight(wc, c)]

\* alphabet.len() - limit when the limit is exceeded, else 0
ToRemove(alphabet, limit) ==
    IF IsSome(limit) /\ Cardinality(DOMAIN alphabet) > Unwrap(limit)
    THEN Cardinality(DOMAIN alphabet) - Unwrap(limit)
    ELSE 0

\* any n characters, whatever their weights
RemovableAny(alphabet, n) ==
    {R \in SUBSET DOMAIN alphabet : Cardinality(R) = n}

\* what sort_unstable_by_key(weight) followed by drain(..to_remove) can remove:
\* any to_remove characters none of which outweighs a kept one
Removable(alphabet, n) ==
    {R \in SUBSET DOMAIN alphabet :
        /\ Cardinality(R) = n
        /\ \A r \in R : \A k \in (DOMAIN alphabet) \ R : alphabet[r] <= alphabet[k]}

RECURSIVE SortByCodeDescending(_)
\* the characters by descending code
SortByCodeDescending(S) ==
    IF S = {} THEN <<>>
    ELSE LET m == CHOOSE x \in S : \A y \in S : CharCode(x) >= CharCode(y)
         IN <<m>> \o SortByCodeDescending(S \ {m})

RECURSIVE SortByCode(_)
\* sort_unstable_by_key(|k| *k.0 as u32): the characters by ascending code
SortByCode(S) ==
    IF S = {} THEN <<>>
    ELSE LET m == CHOOSE x \in S : \A y \in S : CharCode(x) <= CharCode(y)
         IN <<m>> \o SortByCode(S \ {m})

RECURSIVE PushNew(_, _, _)
\* the closing for_each of compute_alphabet: push each character not yet there
PushNew(chars, w2id, id2w) ==
    IF chars = <<>> THEN [w2id |-> w2id, id2w |-> id2w]
    ELSE LET s == <<Head(chars)>> IN
         IF s \in DOMAIN w2id THEN PushNew(Tail(chars), w2id, id2w)
         ELSE PushNew(Tail(chars), Insert(w2id, s, Len(id2w)), Append(id2w, s))

\* ------------------------------------------------------------------ tokenize_words

\* a Symbol of a Word: the token id and the length given to Word::add
Symbol(c, len) == [c |-> c, len |-> len]

\* the symbol with the prefix on every character, the first one too
DecorateAll(word, j, prefix, suffix) ==
    LET s1 == IF IsSome(prefix) THEN Unwrap(prefix) \o <<word[j]>> ELSE <<word[j]>>
    IN IF j = Len(word) /\ IsSome(suffix) THEN s1 \o Unwrap(suffix) ELSE s1

\* the decorated symbol of character j of word
Decorate(word, j, prefix, suffix) ==
    LET s1 == IF j /= 1 /\ IsSome(prefix) THEN Unwrap(prefix) \o <<word[j]>>
              ELSE <<word[j]>>
    IN IF j = Len(word) /\ IsSome(suffix) THEN s1 \o Unwrap(suffix) ELSE s1

RECURSIVE TokenizeWord(_, _, _, _, _, _, _)
\* the inner loop of tokenize_words from character j on
TokenizeWord(word, j, cur, w2id, id2w, prefix, suffix) ==
    IF j > Len(word) THEN [word |-> cur, w2id |-> w2id, id2w |-> id2w]
    ELSE IF <<word[j]>> \notin DOMAIN w2id
    THEN TokenizeWord(word, j + 1, cur, w2id, id2w, prefix, suffix)
    ELSE LET s == Decorate(word, j, prefix, suffix)
             w2 == IF s \in DOMAIN w2id THEN w2id ELSE Insert(w2id, s, Len(id2w))
             i2 == IF s \in DOMAIN w2id THEN id2w ELSE Append(id2w, s)
         IN TokenizeWord(word, j + 1, Append(cur, Symbol(w2[s], 1)), w2, i2,
                         prefix, suffix)

RECURSIVE TokenizeWords(_, _, _, _, _, _, _)
\* tokenize_words over the entries of wc in their iteration order
TokenizeWords(wc, ws, cs, w2id, id2w, prefix, suffix) ==
    IF wc = <<>> THEN [words |-> ws, counts |-> cs, w2id |-> w2id, id2w |-> id2w]
    ELSE LET r == TokenizeWord(Head(wc)[1], 1, <<>>, w2id, id2w, prefix, suffix)
         IN TokenizeWords(Tail(wc), Append(ws, r.word), Append(cs, Head(wc)[2]),
                          r.w2id, r.id2w, prefix, suffix)

\* ------------------------------------------------------------------ count_pairs

\* Word::get_chars
GetChars(word) == [j \in DOMAIN word |-> word[j].c]

RECURSIVE WordPairs(_, _, _, _, _)
\* the map closure of count_pairs for word i: its windows of two from k on
WordPairs(chars, i, count, k, acc) ==
    IF k + 1 > Len(chars) THEN acc
    ELSE LET cur_pair == <<chars[k], chars[k + 1]>>
         IN WordPairs(chars, i, count, k + 1,
               [pair_counts |-> Insert(acc.pair_counts, cur_pair,
                                       Get(acc.pair_counts, cur_pair, 0) + count),
                where_to_update |-> Insert(acc.where_to_update, cur_pair,
                                       Get(acc.where_to_update, cur_pair, {}) \cup {i})])

EmptyMap2 == [pair_counts |-> EmptyMap, where_to_update |-> EmptyMap]

\* a reduction that keeps what the left side has for a pair both sides hold
ReduceKeepLeft(acc, x) ==
    [pair_counts |->
        [p \in (DOMAIN acc.pair_counts) \cup (DOMAIN x.pair_counts) |->
            IF p \in DOMAIN acc.pair_counts THEN acc.pair_counts[p]
            ELSE x.pair_counts[p]],
     where_to_update |->
        [p \in (DOMAIN acc.where_to_update) \cup (DOMAIN x.where_to_update) |->
            IF p \in DOMAIN acc.where_to_update THEN acc.where_to_update[p]
            ELSE x.where_to_update[p]]]

\* the reduce closure of count_pairs: sum the counts, union the positions
ReducePairs(acc, x) ==
    [pair_counts |->
        [p \in (DOMAIN acc.pair_counts) \cup (DOMAIN x.pair_counts) |->
            Get(acc.pair_counts, p, 0) + Get(x.pair_counts, p, 0)],
     where_to_update |->
        [p \in (DOMAIN acc.where_to_update) \cup (DOMAIN x.where_to_update) |->
            Get(acc.where_to_update, p, {}) \cup Get(x.where_to_update, p, {})]]

RECURSIVE CountPairsFrom(_, _, _, _)
CountPairsFrom(ws, cs, i, acc) ==
    IF i > Len(ws) THEN acc
    ELSE CountPairsFrom(ws, cs, i + 1,
            ReducePairs(acc, WordPairs(GetChars(ws[i]), i, cs[i], 1, EmptyMap2)))

\* count_pairs
CountPairs(ws, cs) == CountPairsFrom(ws, cs, 1, EmptyMap2)

RECURSIVE AllReductions(_, _, _)
\* what map and reduce can return for the words of S: the words are split
\* among the workers in any way, and the partial results, each started from
\* the identity, are reduced pairwise in any order
AllReductions(ws, cs, S) ==
    IF S = {} THEN {EmptyMap2}
    ELSE IF Cardinality(S) = 1
    THEN {ReducePairs(EmptyMap2,
                      WordPairs(GetChars(ws[i]), i, cs[i], 1, EmptyMap2)) : i \in S}
    ELSE UNION {{ReducePairs(x, y) : x \in AllReductions(ws, cs, A),
                                     y \in AllReductions(ws, cs, S \ A)} :
                   A \in (SUBSET S) \ {{}, S}}

\* struct Merge
Merge(pair, count, pos) == [pair |-> pair, count |-> count, pos |-> pos]

\* the entries the drain of where_to_update pushes: the pairs with count > 0
FreshEntries(wtu, pcs) ==
    {Merge(p, AsU64(pcs[p]), wtu[p]) : p \in {q \in DOMAIN wtu : pcs[q] > 0}}

\* ------------------------------------------------------------------ Word::merge

\* whether the adjacency of a symbol of length l with the new symbol of length
\* n is counted: not when merging the two would exceed max_length
Countable(l, n, max_length) == l + n <= max_length

RECURSIVE MergeFrom(_, _, _, _, _, _, _)
\* Word::merge from position i on: rewrite each (c1, c2) met, left to right,
\* and collect the (pair, change) it induces on the neighbouring adjacencies
MergeFrom(w, i, c1, c2, replacement, max_length, changes) ==
    IF i > Len(w) THEN [word |-> w, changes |-> changes]
    ELSE IF w[i].c = c1 /\ i + 1 <= Len(w) /\ w[i + 1].c = c2
    THEN LET new_s == Symbol(replacement, w[i].len + w[i + 1].len)
             w2 == SubSeq(w, 1, i - 1) \o <<new_s>> \o SubSeq(w, i + 2, Len(w))
             left == IF i > 1
                     THEN <<(<< <<w[i - 1].c, c1>>, -1 >>)>> \o
                          (IF Countable(w[i - 1].len, new_s.len, max_length)
                           THEN <<(<< <<w[i - 1].c, replacement>>, 1 >>)>>
                           ELSE <<>>)
                     ELSE <<>>
             right == IF i < Len(w2)
                      THEN <<(<< <<c2, w2[i + 1].c>>, -1 >>)>> \o
                           (IF Countable(w2[i + 1].len, new_s.len, max_length)
                            THEN <<(<< <<replacement, w2[i + 1].c>>, 1 >>)>>
                            ELSE <<>>)
                      ELSE <<>>
         IN MergeFrom(w2, i + 1, c1, c2, replacement, max_length,
                      changes \o left \o right)
    ELSE MergeFrom(w, i + 1, c1, c2, replacement, max_length, changes)

\* Word::merge(c1, c2, replacement, max_length)
WordMerge(w, c1, c2, replacement, max_length) ==
    MergeFrom(w, 1, c1, c2, replacement, max_length, <<>>)

\* ------------------------------------------------------------------ one merge

\* part_b as it is
KeepPrefix(part_b, prefix) == part_b

\* part_b with one leading continuing_subword_prefix removed, when it has one
StripPrefix(part_b, prefix) ==
    IF IsSome(prefix) /\ StartsWith(part_b, Unwrap(prefix))
    THEN SubSeq(part_b, Len(Unwrap(prefix)) + 1, Len(part_b))
    ELSE part_b

\* format!("{part_a}{part_b}") for the pair
NewToken(id2w, pair, prefix) ==
    id2w[pair[1] + 1] \o StripPrefix(id2w[pair[2] + 1], prefix)

\* the id of new_token: its present id, or the next one
NewTokenId(w2id, id2w, new_token) == Get(w2id, new_token, Len(id2w))

\* the vocabulary left as it is
InsertNothing(w2id, id2w, new_token) == [w2id |-> w2id, id2w |-> id2w]

\* the token pushed whether it is there or not
InsertAlways(w2id, id2w, new_token) ==
    [w2id |-> Insert(w2id, new_token, Len(id2w)), id2w |-> Append(id2w, new_token)]

\* "Insert new token if it does not already exist"
InsertToken(w2id, id2w, new_token) ==
    IF new_token \in DOMAIN w2id
    THEN [w2id |-> w2id, id2w |-> id2w]
    ELSE [w2id |-> Insert(w2id, new_token, Len(id2w)),
          id2w |-> Append(id2w, new_token)]

\* self.max_token_length.unwrap_or(usize::MAX)
MaxTokenLen(opt) == IF IsSome(opt) THEN Unwrap(opt) ELSE UsizeMax

RECURSIVE RewriteWords(_, _, _, _, _, _)
\* "Merge the new pair in every words": the words of pos, taken in `order`,
\* each rewritten by Word::merge, the changes tagged with the word index
RewriteWords(ws, order, pair, new_token_id, max_length, changes) ==
    IF order = <<>> THEN [words |-> ws, changes |-> changes]
    ELSE LET i == Head(order)
             r == WordMerge(ws[i], pair[1], pair[2], new_token_id, max_length)
             tagged == [k \in DOMAIN r.changes |-> <<r.changes[k], i>>]
         IN RewriteWords([ws EXCEPT ![i] = r.word], Tail(order), pair,
                         new_token_id, max_length, changes \o tagged)

RECURSIVE ApplyUnweighted(_, _, _, _)
\* the changes applied as they are, not multiplied by the word's count
ApplyUnweighted(changes, cs, pcs, wtu) ==
    IF changes = <<>> THEN [pair_counts |-> pcs, where_to_update |-> wtu]
    ELSE LET pair == Head(changes)[1][1]
             change == Head(changes)[1][2]
             iw == Head(changes)[2]
             pcs2 == Insert(pcs, pair, Get(pcs, pair, 0) + change)
             wtu2 == IF change > 0
                     THEN Insert(wtu, pair, Get(wtu, pair, {}) \cup {iw})
                     ELSE wtu
         IN ApplyUnweighted(Tail(changes), cs, pcs2, wtu2)

RECURSIVE ApplyOverwriting(_, _, _, _)
\* each change put in place of the count instead of added to it
ApplyOverwriting(changes, cs, pcs, wtu) ==
    IF changes = <<>> THEN [pair_counts |-> pcs, where_to_update |-> wtu]
    ELSE LET pair == Head(changes)[1][1]
             change == Head(changes)[1][2]
             iw == Head(changes)[2]
             pcs2 == Insert(pcs, pair, change * cs[iw])
             wtu2 == IF change > 0
                     THEN Insert(wtu, pair, Get(wtu, pair, {}) \cup {iw})
                     ELSE wtu
         IN ApplyOverwriting(Tail(changes), cs, pcs2, wtu2)

RECURSIVE ApplyChanges(_, _, _, _)
\* "Introduce new formed pairs": the loop over changes
ApplyChanges(changes, cs, pcs, wtu) ==
    IF changes = <<>> THEN [pair_counts |-> pcs, where_to_update |-> wtu]
    ELSE LET pair == Head(changes)[1][1]
             change == Head(changes)[1][2]
             iw == Head(changes)[2]
             count == change * cs[iw]
             pcs2 == Insert(pcs, pair, Get(pcs, pair, 0) + count)
             wtu2 == IF change > 0
                     THEN Insert(wtu, pair, Get(wtu, pair, {}) \cup {iw})
                     ELSE wtu
         IN ApplyChanges(Tail(changes), cs, pcs2, wtu2)

\* the orders in which the elements of a set can be taken
Orders(S) ==
    {o \in [1..Cardinality(S) -> S] : \A i, j \in DOMAIN o : i /= j => o[i] /= o[j]}

\* ------------------------------------------------------------------ inputs

\* the strings of 1..n characters of chars
Strs(chars, n) == UNION {[1..k -> chars] : k \in 1..n}

RECURSIVE TotalChars(_)
TotalChars(wc) == IF wc = <<>> THEN 0 ELSE Len(Head(wc)[1]) + TotalChars(Tail(wc))

RECURSIVE TotalCount(_)
TotalCount(wc) == IF wc = <<>> THEN 0 ELSE Head(wc)[2] + TotalCount(Tail(wc))

RECURSIVE CorporaOf(_, _, _, _, _)
\* the maps of exactly n entries
CorporaOf(chars, len, n, chars_, count) ==
    IF n = 0 THEN {<<>>}
    ELSE {Append(x[1], x[2]) :
            x \in {y \in CorporaOf(chars, len, n - 1, chars_, count)
                             \X (Strs(chars, len) \X (1..count)) :
                      /\ \A i \in DOMAIN y[1] : y[1][i][1] /= y[2][1]
                      /\ TotalChars(y[1]) + Len(y[2][1]) <= chars_
                      /\ TotalCount(y[1]) + y[2][2] <= count}}

\* word -> count maps as iterated: distinct words of at most `len` characters
\* in any order, of at most `chars_` characters and a total count of at most
\* `count`
CorporaUpTo(chars, len, chars_, count) ==
    UNION {CorporaOf(chars, len, n, chars_, count) : n \in 0..MaxWords}

Corpora(chars, chars_, count) == CorporaUpTo(chars, MaxWordLen, chars_, count)

\* a file of "<symbol> <id>" lines numbered from `first`
Lines(toks, first) == [i \in DOMAIN toks |-> Line(toks[i], first + i - 1)]

\* BpeTrainerBuilder::default()
DefaultVocabSize == 30000
DefaultTrainer ==
    [min_frequency |-> 0,
     vocab_size |-> DefaultVocabSize,
     limit_alphabet |-> NoneOpt,
     initial_alphabet |-> {},
     continuing_subword_prefix |-> NoneOpt,
     end_of_word_suffix |-> NoneOpt,
     max_token_length |-> NoneOpt]

\* no merges.txt, an empty special_tokens.txt
NoFiles == [special_tokens |-> <<>>, alphabet |-> <<>>, merges |-> NoneOpt]

Input(t, f, wc) == [self |-> t, files |-> f, word_counts |-> wc]

\* standalone discovery: corpora over a letter and a digit
DiscoveryInputs ==
    {Input([DefaultTrainer EXCEPT !.min_frequency = mf, !.vocab_size = vs,
                                  !.max_token_length = ml],
           NoFiles, wc) :
        mf \in {0, MaxMinFreq},
        vs \in {0, MaxVocabSize, DefaultVocabSize},
        ml \in {NoneOpt} \cup {Some(n) : n \in 1..MaxTokenLength},
        wc \in Corpora({"a", "9"}, MaxTotalChars, MaxTotalCount)}

\* special_tokens.txt: nothing, a token the merges can produce, in or out of
\* sequence, a token given twice, a token that is a character of the text
SpecialFiles ==
    {<<>>, Lines(<< <<"a", "a">> >>, 0), Lines(<< <<"a", "a">> >>, 1),
     Lines(<< <<"9">>, <<"9">> >>, 0), Lines(<< <<"a">> >>, 0)}

\* standalone, with decorated symbols and special tokens
DecoratedInputs ==
    {Input([DefaultTrainer EXCEPT !.continuing_subword_prefix = pre,
                                  !.end_of_word_suffix = suf,
                                  !.max_token_length = ml],
           [NoFiles EXCEPT !.special_tokens = sp], wc) :
        pre \in {NoneOpt, Some(<<"#">>)},
        suf \in {NoneOpt, Some(<<"$">>)},
        ml \in {NoneOpt, Some(MaxTokenLength)},
        sp \in SpecialFiles,
        wc \in Corpora({"a", "9"}, MaxTotalChars - 1, MaxTotalCount - 1)}

\* standalone, with the alphabet capped and forced
AlphabetInputs ==
    {Input([DefaultTrainer EXCEPT !.limit_alphabet = la, !.initial_alphabet = ia],
           NoFiles, wc) :
        la \in {NoneOpt, Some(0), Some(1), Some(2)},
        ia \in SUBSET {"a", "b"},
        wc \in Corpora({"a", "9"}, MaxTotalChars - 1, MaxTotalCount - 1)}

\* alphabet.txt: in sequence, with a repeated symbol, out of sequence
AlphabetFiles ==
    {Lines(<< <<"9">>, <<"a">> >>, 0),
     Lines(<< <<"a">>, <<"a">>, <<"9">> >>, 0),
     Lines(<< <<"a">>, <<"9">> >>, 1)}

\* the (left, right) lines merges.txt is made of
MergeLines ==
    {<< <<"a">>, <<"a">> >>, << <<"a">>, <<"9">> >>, << <<"a", "a">>, <<"a">> >>}

\* merges.txt after its header line: lines in any order without repetition,
\* one line given twice, and a line whose right symbol, or neither symbol, is
\* in alphabet.txt
MergeFiles ==
    {mo \in UNION {[1..k -> MergeLines] : k \in 0..MaxMerges} :
        \A i, j \in DOMAIN mo : i /= j => mo[i] /= mo[j]}
    \cup {<< << <<"a">>, <<"a">> >>, << <<"a">>, <<"a">> >> >>,
          << << <<"a">>, <<"b">> >> >>,
          << << <<"b">>, <<"c">> >> >>}

\* the trainers of extend mode: the default and one field changed at a time
ExtendTrainers ==
    {DefaultTrainer,
     [DefaultTrainer EXCEPT !.min_frequency = MaxMinFreq],
     [DefaultTrainer EXCEPT !.vocab_size = MaxVocabSize],
     [DefaultTrainer EXCEPT !.max_token_length = Some(MaxTokenLength)],
     [DefaultTrainer EXCEPT !.continuing_subword_prefix = Some(<<"#">>)],
     [DefaultTrainer EXCEPT !.continuing_subword_prefix = Some(<<"9">>)]}

\* extend mode: merges.txt is there
ExtendInputs ==
    {Input(t, [special_tokens |-> sp, alphabet |-> al, merges |-> Some(mo)], wc) :
        t \in ExtendTrainers,
        sp \in {<<>>},
        al \in AlphabetFiles,
        mo \in MergeFiles,
        wc \in Corpora({"a", "9"}, MaxTotalChars - 1, MaxTotalCount - 1)}

\* extend mode with a special_tokens.txt numbered from the size of alphabet.txt
ExtendSpecialInputs ==
    {Input(DefaultTrainer,
           [special_tokens |-> Lines(<< <<"a", "a">> >>, first),
            alphabet |-> Lines(<< <<"9">>, <<"a">> >>, 0),
            merges |-> Some(mo)], wc) :
        first \in {2, 3},
        mo \in MergeFiles,
        wc \in Corpora({"a", "9"}, MaxTotalChars - 1, MaxTotalCount - 1)}

\* text that holds the character the end_of_word_suffix is made of: the last
\* character of a word is encoded to the symbol two of them merge into
MarkerInputs ==
    {Input([DefaultTrainer EXCEPT !.end_of_word_suffix = Some(<<"$">>)], NoFiles, wc) :
        wc \in CorporaUpTo({"a", "$"}, MaxWordLen + 1, MaxTotalChars + 2, MaxTotalCount)}

\* the cap on num_words
MaxNumWords == 20

\* n groups, each closed by U+0120
Groups(n) == [i \in 1..(2 * n) |-> IF i % 2 = 1 THEN "a" ELSE "G"]

\* extend mode with nothing to replay and a continuing_subword_prefix of as
\* many groups as the cap on num_words, or one fewer
ManyWordsInputs ==
    {Input([DefaultTrainer EXCEPT !.continuing_subword_prefix = Some(Groups(n))],
           [special_tokens |-> <<>>,
            alphabet |-> Lines(<< <<"9">>, <<"a">> >>, 0),
            merges |-> Some(<<>>)], wc) :
        n \in {MaxNumWords - 1, MaxNumWords},
        wc \in CorporaUpTo({"a"}, MaxWordLen + 1, MaxTotalChars, MaxTotalCount - 1)}

\* standalone, with prefix and suffix and an alphabet capped at the one
\* character of initial_alphabet
CulledInputs ==
    {Input([DefaultTrainer EXCEPT !.continuing_subword_prefix = Some(<<"#">>),
                                  !.end_of_word_suffix = Some(<<"$">>),
                                  !.limit_alphabet = Some(1),
                                  !.initial_alphabet = {"a"}],
           NoFiles, wc) :
        wc \in Corpora({"a", "9"}, MaxTotalChars - 1, MaxTotalCount - 1)}

\* two words in which one merge touches the same neighbouring pair, counted
\* once or twice each and iterated either way round; standalone, and in
\* extend mode with that merge listed
SharedPairInputs ==
    {Input(DefaultTrainer, f, wc) :
        f \in {NoFiles,
               [special_tokens |-> <<>>,
                alphabet |-> Lines(<< <<"9">>, <<"a">> >>, 0),
                merges |-> Some(<< << <<"a">>, <<"a">> >> >>)]},
        wc \in {o \in [1..2 -> {<<"a", "a", "a">>, <<"a", "a", "a", "a">>} \X (1..2)] :
                   o[1][1] /= o[2][1]}}

\* standalone with a suffix and a max_token_length, the text holding the
\* suffix character: a short word, and a long one in which the suffix
\* character is doubled before the end
LongMarkerInputs ==
    {Input([DefaultTrainer EXCEPT !.end_of_word_suffix = Some(<<"$">>),
                                  !.max_token_length = Some(ml)],
           NoFiles, wc) :
        ml \in {MaxTokenLength, MaxTokenLength + 1},
        wc \in {o \in [1..2 -> {<<"a", "$">>, <<"a", "a", "$">>,
                                 <<"a", "a", "$", "$", "$">>} \X (1..2)] :
                   /\ o[1][1] /= o[2][1]
                   /\ \E i \in 1..2 : Len(o[i][1]) = 5}}

\* do_train: merges.txt exists
ExtendMode == IsSome(files.merges)

NoTop == Merge(<<0, 0>>, 0, {})
NoModel == [vocab |-> EmptyMap, vocab_r |-> EmptyMap, merges |-> EmptyMap]

\* the word -> count map that is iterated in the order wc
WordMap(wc) ==
    [w \in {wc[i][1] : i \in DOMAIN wc} |->
        LET i == CHOOSE i \in DOMAIN wc : wc[i][1] = w IN wc[i][2]]

\* no call of feed is running
NoFeed == [iterator |-> <<>>, rejects |-> {}, pending |-> {},
           partials |-> EmptyBag, ret |-> NoneOpt]

\* no parallel rewrite is running
NoRegion == [pair |-> <<0, 0>>, new_token_id |-> 0, pos |-> {},
             handed |-> EmptyBag, running |-> EmptyBag, changes |-> EmptyMap,
             replay |-> FALSE, before |-> <<>>]

\* the locals of do_train before its first statement
Locals ==
    /\ word_to_id = EmptyMap
    /\ id_to_word = <<>>
    /\ words = <<>>
    /\ counts = <<>>
    /\ pair_counts = EmptyMap
    /\ where_to_update = EmptyMap
    /\ queue = EmptyBag
    /\ top = NoTop
    /\ merges = <<>>
    /\ merge_idx = 0
    /\ encoded = <<>>
    /\ model = NoModel
    /\ panic = NoPanic
    /\ region = NoRegion

\* the state do_train starts from, given the trainer, the files and the words
Start(inp) ==
    /\ self = inp.self
    /\ files = inp.files
    /\ word_counts = inp.word_counts
    /\ self_words = WordMap(inp.word_counts)
    /\ feed = NoFeed
    /\ Locals
    /\ pc = IF IsSome(inp.files.merges) THEN "load_alphabet" ELSE "special"

Init ==
    \/ \E inp \in DiscoveryInputs : Start(inp)
    \/ \E inp \in DecoratedInputs : Start(inp)
    \/ \E inp \in AlphabetInputs : Start(inp)
    \/ \E inp \in ExtendInputs : Start(inp)
    \/ \E inp \in MarkerInputs : Start(inp)
    \/ \E inp \in ExtendSpecialInputs : Start(inp)
    \/ \E inp \in ManyWordsInputs : Start(inp)
    \/ \E inp \in SharedPairInputs : Start(inp)
    \/ \E inp \in CulledInputs : Start(inp)
    \/ \E inp \in LongMarkerInputs : Start(inp)

\* ------------------------------------------------------------------ set-up steps

Inputs_unchanged == UNCHANGED <<self, files, word_counts, self_words, feed>>

\* self.add_special_tokens(&mut word_to_id, &mut id_to_word): first in
\* do_train_original, after the replay in do_train_extend
AddSpecialTokens ==
    /\ pc = "special"
    /\ LET r == LoadSpecialTokens(files.special_tokens, word_to_id, id_to_word) IN
        /\ word_to_id' = r.w2id
        /\ id_to_word' = r.id2w
        /\ pc' = IF ~r.ok THEN "panic"
                 ELSE IF ExtendMode THEN "loop" ELSE "alphabet"
        /\ panic' = r.err
    /\ UNCHANGED region
    /\ Inputs_unchanged
    /\ UNCHANGED <<words, counts, pair_counts, where_to_update, queue, top,
                   merges, merge_idx, encoded, model>>

\* self.compute_alphabet(word_counts, &mut word_to_id, &mut id_to_word)
ComputeAlphabet ==
    /\ pc = "alphabet"
    /\ LET alphabet == AlphabetMap(word_counts, self.initial_alphabet)
           to_remove == ToRemove(alphabet, self.limit_alphabet)
       IN \E removed \in Removable(alphabet, to_remove) :
            LET r == PushNew(SortByCode((DOMAIN alphabet) \ removed),
                             word_to_id, id_to_word)
            IN /\ word_to_id' = r.w2id
               /\ id_to_word' = r.id2w
    /\ pc' = "tokenize"
    /\ Inputs_unchanged
    /\ UNCHANGED <<panic, region>>
    /\ UNCHANGED <<words, counts, pair_counts, where_to_update, queue, top,
                   merges, merge_idx, encoded, model>>

\* "1. Load the initial alphabet from alphabet.txt"
LoadAlphabetFile ==
    /\ pc = "load_alphabet"
    /\ LET r == LoadAlphabet(files.alphabet, word_to_id, id_to_word) IN
        /\ word_to_id' = r.w2id
        /\ id_to_word' = r.id2w
        /\ pc' = IF r.ok THEN "tokenize" ELSE "panic"
        /\ panic' = r.err
    /\ UNCHANGED region
    /\ Inputs_unchanged
    /\ UNCHANGED <<words, counts, pair_counts, where_to_update, queue, top,
                   merges, merge_idx, encoded, model>>

\* let (words, counts) = self.tokenize_words(...)
Tokenize ==
    /\ pc = "tokenize"
    /\ LET r == TokenizeWords(word_counts, <<>>, <<>>, word_to_id, id_to_word,
                              self.continuing_subword_prefix, self.end_of_word_suffix)
       IN /\ words' = r.words
          /\ counts' = r.counts
          /\ encoded' = r.words
          /\ word_to_id' = r.w2id
          /\ id_to_word' = r.id2w
    /\ pc' = "count"
    /\ Inputs_unchanged
    /\ UNCHANGED <<panic, region>>
    /\ UNCHANGED <<pair_counts, where_to_update, queue, top, merges, merge_idx, model>>

\* count_pairs, then "Insert them in the queue"
IndexPairs ==
    /\ pc = "count"
    /\ LET r == CountPairs(words, counts) IN
        /\ pair_counts' = r.pair_counts
        /\ where_to_update' = EmptyMap
        /\ queue' = SetToBag(FreshEntries(r.where_to_update, r.pair_counts))
    /\ pc' = IF ExtendMode THEN "replay" ELSE "loop"
    /\ Inputs_unchanged
    /\ UNCHANGED <<panic, region>>
    /\ UNCHANGED <<word_to_id, id_to_word, words, counts, top, merges, merge_idx,
                   encoded, model>>

\* ------------------------------------------------------------------ the merge

\* the state one merge of `pair` into new_token leaves: the vocabulary, the
\* rule, the words rewritten in `order`, the counts reconciled, and the
\* entries the drain of where_to_update yields
MergeResult(pair, pos_order) ==
    LET new_token == NewToken(id_to_word, pair, self.continuing_subword_prefix)
        new_token_id == NewTokenId(word_to_id, id_to_word, new_token)
        v == InsertToken(word_to_id, id_to_word, new_token)
        rw == RewriteWords(words, pos_order, pair, new_token_id,
                           MaxTokenLen(self.max_token_length), <<>>)
        rc == ApplyChanges(rw.changes, counts, pair_counts, where_to_update)
    IN [w2id |-> v.w2id, id2w |-> v.id2w,
        merges |-> Append(merges, <<pair, new_token_id>>),
        words |-> rw.words,
        pair_counts |-> rc.pair_counts,
        fresh |-> FreshEntries(rc.where_to_update, rc.pair_counts)]

\* ------------------------------------------------------------------ the loop

\* the break one symbol late
VocabOverfull == Cardinality(DOMAIN word_to_id) > self.vocab_size

VocabFull == Cardinality(DOMAIN word_to_id) >= self.vocab_size

\* the two breaks at the head of the loop
LoopExit ==
    /\ pc = "loop"
    /\ VocabFull \/ queue = EmptyBag
    /\ pc' = "transfer"
    /\ Inputs_unchanged
    /\ UNCHANGED <<panic, region>>
    /\ UNCHANGED <<word_to_id, id_to_word, words, counts, pair_counts,
                   where_to_update, queue, top, merges, merge_idx, encoded, model>>

\* BinaryHeap::pop: a greatest entry by Ord
Greatest(q) == {e \in BagToSet(q) : \A o \in BagToSet(q) : MergeCmp(o, e) <= 0}

\* let mut top = queue.pop().unwrap()
Pop ==
    /\ pc = "loop"
    /\ ~VocabFull
    /\ queue /= EmptyBag
    /\ \E e \in Greatest(queue) :
        /\ top' = e
        /\ queue' = queue (-) SetToBag({e})
    /\ pc' = "popped"
    /\ Inputs_unchanged
    /\ UNCHANGED <<panic, region>>
    /\ UNCHANGED <<word_to_id, id_to_word, words, counts, pair_counts,
                   where_to_update, merges, merge_idx, encoded, model>>

\* no entry is taken for stale
NeverStale(t) == FALSE

\* if top.count != pair_counts[&top.pair] as u64
IsStale(t) == t.count /= AsU64(pair_counts[t.pair])

\* the entry pushed back as it was popped
NotRepriced(t) == t

\* top.count = pair_counts[&top.pair] as u64
Repriced(t) == [t EXCEPT !.count = AsU64(pair_counts[t.pair])]

\* if top.count != pair_counts[&top.pair] as u64: re-push and continue
Reprice ==
    /\ pc = "popped"
    /\ IsStale(top)
    /\ queue' = queue (+) SetToBag({Repriced(top)})
    /\ top' = NoTop
    /\ pc' = "loop"
    /\ Inputs_unchanged
    /\ UNCHANGED <<panic, region>>
    /\ UNCHANGED <<word_to_id, id_to_word, words, counts, pair_counts,
                   where_to_update, merges, merge_idx, encoded, model>>

\* the floor without min_frequency
BelowOne(t) == t.count < 1

BelowFloor(t) == t.count < 1 \/ self.min_frequency > t.count

\* if top.count < 1 || self.min_frequency > top.count: break
FloorBreak ==
    /\ pc = "popped"
    /\ ~IsStale(top)
    /\ BelowFloor(top)
    /\ top' = NoTop
    /\ pc' = "transfer"
    /\ Inputs_unchanged
    /\ UNCHANGED <<panic, region>>
    /\ UNCHANGED <<word_to_id, id_to_word, words, counts, pair_counts,
                   where_to_update, queue, merges, merge_idx, encoded, model>>

\* the number of U+0120 in the token
NumSeparators(tok) == Cardinality({j \in DOMAIN tok : tok[j] = "G"})

\* new_token.split("\u{120}").filter(|s| !s.is_empty()).count()
NumWords(tok) ==
    Cardinality({j \in DOMAIN tok : tok[j] /= "G" /\ (j = 1 \/ tok[j - 1] = "G")})

\* the guard looking at part_a only
DigitOnLeft(part_a, part_b) == part_a /= <<>> /\ IsAsciiDigit(Last(part_a))

\* part_a ends with a digit or part_b (prefix removed) starts with one
DigitBoundary(part_a, part_b) ==
    \/ (part_a /= <<>> /\ IsAsciiDigit(Last(part_a)))
    \/ (part_b /= <<>> /\ IsAsciiDigit(Head(part_b)))

\* the two filters of the loop of do_train_extend
Filtered(pair) ==
    LET part_a == id_to_word[pair[1] + 1]
        part_b == StripPrefix(id_to_word[pair[2] + 1], self.continuing_subword_prefix)
    IN \/ NumWords(part_a \o part_b) > MaxNumWords
       \/ DigitBoundary(part_a, part_b)

\* the `continue` of a filtered candidate (do_train_extend only)
SkipFiltered ==
    /\ pc = "popped"
    /\ ExtendMode
    /\ ~IsStale(top)
    /\ ~BelowFloor(top)
    /\ Filtered(top.pair)
    /\ top' = NoTop
    /\ pc' = "loop"
    /\ Inputs_unchanged
    /\ UNCHANGED <<panic, region>>
    /\ UNCHANGED <<word_to_id, id_to_word, words, counts, pair_counts,
                   where_to_update, queue, merges, merge_idx, encoded, model>>

\* the rest of the iteration: new token, rule, rewrite, reconciliation, pushes
MergeTop ==
    /\ pc = "popped"
    /\ ~IsStale(top)
    /\ ~BelowFloor(top)
    /\ ExtendMode => ~Filtered(top.pair)
    /\ \E order \in Orders(top.pos) :
        LET r == MergeResult(top.pair, order) IN
        /\ word_to_id' = r.w2id
        /\ id_to_word' = r.id2w
        /\ merges' = r.merges
        /\ words' = r.words
        /\ pair_counts' = r.pair_counts
        /\ where_to_update' = EmptyMap
        /\ queue' = queue (+) SetToBag(r.fresh)
    /\ top' = NoTop
    /\ pc' = "loop"
    /\ Inputs_unchanged
    /\ UNCHANGED <<panic, region>>
    /\ UNCHANGED <<counts, merge_idx, encoded, model>>

\* ------------------------------------------------------------------ the replay

merge_order == Unwrap(files.merges)

\* the for loop over merge_order has run out
ReplayEnd ==
    /\ pc = "replay"
    /\ merge_idx = Len(merge_order)
    /\ pc' = "special"
    /\ Inputs_unchanged
    /\ UNCHANGED <<panic, region>>
    /\ UNCHANGED <<word_to_id, id_to_word, words, counts, pair_counts,
                   where_to_update, queue, top, merges, merge_idx, encoded, model>>

NextLeft == merge_order[merge_idx + 1][1]
NextRight == merge_order[merge_idx + 1][2]
\* the pair with its sides exchanged
exchanged_pair == <<word_to_id[NextRight], word_to_id[NextLeft]>>
override_pair == <<word_to_id[NextLeft], word_to_id[NextRight]>>

\* the symbol the panic names, looking at the right one first
MissingFromRight ==
    IF NextRight \notin DOMAIN word_to_id THEN NextRight ELSE NextLeft

\* the symbol the panic names: left is looked at first
MissingSymbol ==
    IF NextLeft \notin DOMAIN word_to_id THEN NextLeft ELSE NextRight

\* panic!("{} not found in word_to_id", ...)
ReplayMissing ==
    /\ pc = "replay"
    /\ merge_idx < Len(merge_order)
    /\ NextLeft \notin DOMAIN word_to_id \/ NextRight \notin DOMAIN word_to_id
    /\ pc' = "panic"
    /\ panic' = Panic("{} not found in word_to_id", MissingSymbol)
    /\ UNCHANGED region
    /\ Inputs_unchanged
    /\ UNCHANGED <<word_to_id, id_to_word, words, counts, pair_counts,
                   where_to_update, queue, top, merges, merge_idx, encoded, model>>

\* queue.contains_key(&pair), the queue being the HashMap<Pair, Merge>
QueueEntries(pair) == {e \in BagToSet(queue) : e.pair = pair}

\* "Still inherit the merging rule to vocabulary even if not in queue"
ReplayPhantom ==
    /\ pc = "replay"
    /\ merge_idx < Len(merge_order)
    /\ NextLeft \in DOMAIN word_to_id /\ NextRight \in DOMAIN word_to_id
    /\ QueueEntries(override_pair) = {}
    /\ LET new_token == NewToken(id_to_word, override_pair,
                                 self.continuing_subword_prefix)
           new_token_id == NewTokenId(word_to_id, id_to_word, new_token)
           v == InsertToken(word_to_id, id_to_word, new_token)
       IN /\ word_to_id' = v.w2id
          /\ id_to_word' = v.id2w
          /\ merges' = Append(merges, <<override_pair, new_token_id>>)
    /\ merge_idx' = merge_idx + 1
    /\ UNCHANGED pc
    /\ Inputs_unchanged
    /\ UNCHANGED <<panic, region>>
    /\ UNCHANGED <<words, counts, pair_counts, where_to_update, queue, top,
                   encoded, model>>

\* queue.insert(pair, merge) for each fresh entry: one entry per pair
InsertAll(q, fresh) ==
    SetToBag({e \in BagToSet(q) : \A f \in fresh : f.pair /= e.pair} \cup fresh)

\* the listed pair is in the queue: take it out and merge it
ReplayMerge ==
    /\ pc = "replay"
    /\ merge_idx < Len(merge_order)
    /\ NextLeft \in DOMAIN word_to_id /\ NextRight \in DOMAIN word_to_id
    /\ \E e \in QueueEntries(override_pair) :
       \E order \in Orders(e.pos) :
        LET r == MergeResult(e.pair, order) IN
        /\ word_to_id' = r.w2id
        /\ id_to_word' = r.id2w
        /\ merges' = r.merges
        /\ words' = r.words
        /\ pair_counts' = r.pair_counts
        /\ where_to_update' = EmptyMap
        /\ queue' = InsertAll(queue (-) SetToBag({e}), r.fresh)
    /\ merge_idx' = merge_idx + 1
    /\ UNCHANGED pc
    /\ Inputs_unchanged
    /\ UNCHANGED <<panic, region>>
    /\ UNCHANGED <<counts, top, encoded, model>>

\* ------------------------------------------------------------------ the result

\* the ranks counted from 1
ModelMergesFromOne(ms) ==
    [p \in {ms[i][1] : i \in DOMAIN ms} |->
        LET i == CHOOSE k \in DOMAIN ms :
                    ms[k][1] = p /\ \A j \in DOMAIN ms : ms[j][1] = p => j <= k
        IN <<i, ms[i][2]>>]

\* merges.into_iter().enumerate().map(...).collect(): a later rule for the same
\* pair replaces an earlier one
ModelMerges(ms) ==
    [p \in {ms[i][1] : i \in DOMAIN ms} |->
        LET i == CHOOSE k \in DOMAIN ms :
                    ms[k][1] = p /\ \A j \in DOMAIN ms : ms[j][1] = p => j <= k
        IN <<i - 1, ms[i][2]>>]

\* model.vocab.iter().map(|(key, val)| (*val, key.to_owned())).collect()
Inverse(w2id) ==
    [i \in {w2id[s] : s \in DOMAIN w2id} |-> CHOOSE s \in DOMAIN w2id : w2id[s] = i]

\* "Transfer new vocab & options to model"
Transfer ==
    /\ pc = "transfer"
    /\ model' = [vocab |-> word_to_id, vocab_r |-> Inverse(word_to_id),
                 merges |-> ModelMerges(merges)]
    /\ pc' = "done"
    /\ Inputs_unchanged
    /\ UNCHANGED <<panic, region>>
    /\ UNCHANGED <<word_to_id, id_to_word, words, counts, pair_counts,
                   where_to_update, queue, top, merges, merge_idx, encoded>>

Next ==
    \/ AddSpecialTokens
    \/ ComputeAlphabet
    \/ LoadAlphabetFile
    \/ Tokenize
    \/ IndexPairs
    \/ LoopExit
    \/ Pop
    \/ Reprice
    \/ FloorBreak
    \/ SkipFiltered
    \/ MergeTop
    \/ ReplayEnd
    \/ ReplayMissing
    \/ ReplayPhantom
    \/ ReplayMerge
    \/ Transfer

Spec == Init /\ [][Next]_vars

\* do_train has returned, or a panic has ended it
Returned == pc \in {"done", "panic"}

Positions == {"special", "alphabet", "load_alphabet", "tokenize", "count",
              "loop", "popped", "replay", "transfer", "done", "panic"}

\* control moves on: to another position, or to the next line of merges.txt.
\* Every step of Next is such a step, and Next can take one wherever the run
\* has not Returned, so that weak fairness of Proceeds is WF_vars(Next) without
\* the cost of computing a successor to tell that one exists.
control == <<pc, merge_idx>>

Proceeds ==
    /\ ~Returned
    /\ \E p \in Positions, i \in 0..MaxMerges :
        /\ <<p, i>> /= control
        /\ pc' = p
        /\ merge_idx' = i

\* do_train is one thread of sequential code (the parallel regions join
\* before the next statement): it runs on until it returns or panics
LiveSpec == Spec /\ WF_control(Proceeds)

\* ------------------------------------------------------------------ the rewrite, task by task

\* every index of the region, whether it was handed out or not
AnyPosition(r) == r.pos

\* top.pos.maybe_par_iter(): the indices of the HashSet not yet handed to a task
Unhanded(r) == r.pos \ BagToSet(r.handed)

\* the region that rewrites the words of `pos` for `pair`; `before` keeps the
\* words as they are when the region is entered
Region(pair, pos, replay) ==
    [pair |-> pair,
     new_token_id |-> NewTokenId(word_to_id, id_to_word,
                         NewToken(id_to_word, pair, self.continuing_subword_prefix)),
     pos |-> pos, handed |-> EmptyBag, running |-> EmptyBag,
     changes |-> EmptyMap, replay |-> replay, before |-> words]

\* the iteration of the loop up to the rewrite: new token, rule
MergeOpen ==
    /\ pc = "popped"
    /\ ~IsStale(top)
    /\ ~BelowFloor(top)
    /\ ExtendMode => ~Filtered(top.pair)
    /\ LET new_token == NewToken(id_to_word, top.pair, self.continuing_subword_prefix)
           v == InsertToken(word_to_id, id_to_word, new_token)
       IN /\ word_to_id' = v.w2id
          /\ id_to_word' = v.id2w
          /\ merges' = Append(merges, <<top.pair,
                                  NewTokenId(word_to_id, id_to_word, new_token)>>)
    /\ region' = Region(top.pair, top.pos, FALSE)
    /\ pc' = "rewrite"
    /\ Inputs_unchanged
    /\ UNCHANGED <<words, counts, pair_counts, where_to_update, queue, top,
                   merge_idx, encoded, model, panic>>

\* the replay of a listed pair up to the rewrite: queue.remove, new token, rule
ReplayOpen ==
    /\ pc = "replay"
    /\ merge_idx < Len(merge_order)
    /\ NextLeft \in DOMAIN word_to_id /\ NextRight \in DOMAIN word_to_id
    /\ \E e \in QueueEntries(override_pair) :
        /\ queue' = queue (-) SetToBag({e})
        /\ region' = Region(e.pair, e.pos, TRUE)
        /\ LET new_token == NewToken(id_to_word, e.pair,
                                     self.continuing_subword_prefix)
               v == InsertToken(word_to_id, id_to_word, new_token)
           IN /\ word_to_id' = v.w2id
              /\ id_to_word' = v.id2w
              /\ merges' = Append(merges, <<e.pair,
                                  NewTokenId(word_to_id, id_to_word, new_token)>>)
    /\ pc' = "rewrite"
    /\ Inputs_unchanged
    /\ UNCHANGED <<words, counts, pair_counts, where_to_update, top,
                   merge_idx, encoded, model, panic>>

\* flat_map(|&i| ..): index i is handed to a task
TaskBegin ==
    /\ pc = "rewrite"
    /\ \E i \in Unhanded(region) :
        region' = [region EXCEPT !.handed = @ (+) SetToBag({i}),
                                 !.running = @ (+) SetToBag({i})]
    /\ Inputs_unchanged
    /\ UNCHANGED <<word_to_id, id_to_word, words, counts, pair_counts,
                   where_to_update, queue, top, merges, merge_idx, encoded,
                   model, pc, panic>>

\* (*word).merge(..) of a running task: it writes words[i] and returns its
\* changes tagged with i
TaskEnd ==
    /\ pc = "rewrite"
    /\ \E i \in BagToSet(region.running) :
        LET r == WordMerge(words[i], region.pair[1], region.pair[2],
                           region.new_token_id, MaxTokenLen(self.max_token_length))
            tagged == [k \in DOMAIN r.changes |-> <<r.changes[k], i>>]
        IN /\ words' = [words EXCEPT ![i] = r.word]
           /\ region' = [region EXCEPT
                           !.running = @ (-) SetToBag({i}),
                           !.changes = Insert(@, i, Get(@, i, <<>>) \o tagged)]
    /\ Inputs_unchanged
    /\ UNCHANGED <<word_to_id, id_to_word, counts, pair_counts,
                   where_to_update, queue, top, merges, merge_idx, encoded,
                   model, pc, panic>>

RECURSIVE Collected(_, _)
\* collect::<Vec<_>>(): the changes of the tasks, task after task in `order`
Collected(changes, order) ==
    IF order = <<>> THEN <<>>
    ELSE Get(changes, Head(order), <<>>) \o Collected(changes, Tail(order))

\* the rest of the iteration once every task has returned: reconciliation,
\* pushes on the heap (discovery) or inserts in the map (replay)
MergeClose ==
    /\ pc = "rewrite"
    /\ Unhanded(region) = {}
    /\ region.running = EmptyBag
    /\ \E order \in Orders(region.pos) :
        LET rc == ApplyChanges(Collected(region.changes, order), counts,
                               pair_counts, where_to_update)
            fresh == FreshEntries(rc.where_to_update, rc.pair_counts)
        IN /\ pair_counts' = rc.pair_counts
           /\ where_to_update' = EmptyMap
           /\ queue' = IF region.replay THEN InsertAll(queue, fresh)
                       ELSE queue (+) SetToBag(fresh)
    /\ merge_idx' = IF region.replay THEN merge_idx + 1 ELSE merge_idx
    /\ top' = NoTop
    /\ pc' = IF region.replay THEN "replay" ELSE "loop"
    /\ region' = NoRegion
    /\ Inputs_unchanged
    /\ UNCHANGED <<word_to_id, id_to_word, words, counts, merges, encoded,
                   model, panic>>

\* do_train with the parallel rewrite taken task by task
ParNext ==
    \/ AddSpecialTokens
    \/ ComputeAlphabet
    \/ LoadAlphabetFile
    \/ Tokenize
    \/ IndexPairs
    \/ LoopExit
    \/ Pop
    \/ Reprice
    \/ FloorBreak
    \/ SkipFiltered
    \/ MergeOpen
    \/ ReplayEnd
    \/ ReplayMissing
    \/ ReplayPhantom
    \/ ReplayOpen
    \/ TaskBegin
    \/ TaskEnd
    \/ MergeClose
    \/ Transfer

ParSpec == Init /\ [][ParNext]_vars

\* ------------------------------------------------------------------ feed

\* Result<T>: Ok(v), or Err(e) with e the sequence the processor refused
Ok(v) == [ok |-> TRUE, val |-> v]
Err(e) == [ok |-> FALSE, val |-> e]

\* the call process(sequence.as_ref()): the caller's processor splits the
\* sequence into words, or refuses it
process(f, sequence) ==
    IF sequence \in f.rejects THEN Err(sequence) ELSE Ok(sequence)

\* map.entry(word).and_modify(|c| *c += 1).or_insert(1) for each word
CountWords(ws) ==
    [w \in {ws[i] : i \in DOMAIN ws} |->
        Cardinality({i \in DOMAIN ws : ws[i] = w})]

\* the closure given to map: process(..)? and the count of its words
MapSequence(f, sequence) ==
    LET r == process(f, sequence) IN
    IF r.ok THEN Ok(CountWords(r.val)) ELSE r

\* the counts of ws put over those of acc
OverwriteCounts(acc, ws) ==
    [k \in DOMAIN acc \cup DOMAIN ws |-> IF k \in DOMAIN ws THEN ws[k] ELSE acc[k]]

\* acc.entry(k).and_modify(|c| *c += v).or_insert(v) for each (k, v) of ws
AddCounts(acc, ws) ==
    [k \in DOMAIN acc \cup DOMAIN ws |->
        (IF k \in DOMAIN acc THEN acc[k] ELSE 0)
        + (IF k \in DOMAIN ws THEN ws[k] ELSE 0)]

\* a reduction that leaves out the side that is an error
ReduceLenient(acc, ws) ==
    IF ~acc.ok THEN ws
    ELSE IF ~ws.ok THEN acc
    ELSE Ok(AddCounts(acc.val, ws.val))

\* the closure given to reduce: acc? first, then ws?
Reduce(acc, ws) ==
    IF ~acc.ok THEN acc
    ELSE IF ~ws.ok THEN ws
    ELSE Ok(AddCounts(acc.val, ws.val))

\* || Ok(HashMap::new())
Identity == Ok(EmptyMap)

Feed_unchanged ==
    UNCHANGED <<self, files, word_counts, word_to_id, id_to_word, words,
                counts, pair_counts, where_to_update, queue, top, merges,
                merge_idx, encoded, model, panic, region>>

\* one item of the iterator is mapped, in whatever order the bridge takes them
FeedMap ==
    /\ pc = "feed"
    /\ \E i \in feed.pending :
        feed' = [feed EXCEPT
                   !.pending = @ \ {i},
                   !.partials = @ (+) SetToBag({Reduce(Identity,
                                        MapSequence(feed, feed.iterator[i]))})]
    /\ UNCHANGED <<pc, self_words>>
    /\ Feed_unchanged

\* two partial results are reduced to one
FeedReduce ==
    /\ pc = "feed"
    /\ \E acc, ws \in BagToSet(feed.partials) :
        /\ acc /= ws \/ CopiesIn(acc, feed.partials) >= 2
        /\ feed' = [feed EXCEPT
                      !.partials = ((@ (-) SetToBag({acc})) (-) SetToBag({ws}))
                                   (+) SetToBag({Reduce(acc, ws)})]
    /\ UNCHANGED <<pc, self_words>>
    /\ Feed_unchanged

\* self.words = words?; Ok(())
FeedReturn ==
    /\ pc = "feed"
    /\ feed.pending = {}
    /\ BagCardinality(feed.partials) <= 1
    /\ LET ws == IF feed.partials = EmptyBag THEN Identity
                 ELSE CHOOSE r \in BagToSet(feed.partials) : TRUE
       IN IF ws.ok
          THEN /\ self_words' = ws.val
               /\ feed' = [feed EXCEPT !.ret = Some(Ok(<<>>))]
          ELSE /\ self_words' = self_words
               /\ feed' = [feed EXCEPT !.ret = Some(ws)]
    /\ pc' = "fed"
    /\ Feed_unchanged

FeedWords == {<<"a">>, <<"b">>}

\* the sequences as the processor splits them
Texts == UNION {[1..k -> FeedWords] : k \in 0..MaxSequenceWords}

\* a call of feed on a trainer that holds the counts of an earlier call or
\* none, with a processor that refuses one sequence or none
FeedInit ==
    \E prior \in {EmptyMap, CountWords(<< <<"a">> >>)},
       it \in UNION {[1..n -> Texts] : n \in 0..MaxSequences},
       rj \in {{}} \cup {{t} : t \in Texts} :
        /\ self = DefaultTrainer
        /\ files = NoFiles
        /\ word_counts = <<>>
        /\ Locals
        /\ pc = "feed"
        /\ self_words = prior
        /\ feed = [iterator |-> it, rejects |-> rj, pending |-> DOMAIN it,
                   partials |-> EmptyBag, ret |-> NoneOpt]

FeedNext ==
    \/ FeedMap
    \/ FeedReduce
    \/ FeedReturn

FeedSpec == FeedInit /\ [][FeedNext]_vars

\* ------------------------------------------------------------------ claims

InLoop == pc \in {"loop", "popped"}

\* the step is one that appends a rule taken from the queue by the loop
Emits == pc = "popped" /\ merges' /= merges

\* (left, right) of p is lexicographically at most that of q
LexLeq(p, q) == p[1] < q[1] \/ (p[1] = q[1] /\ p[2] <= q[2])

\* C1: the entry a pop returns has the greatest cached count of the queue,
\* and among the entries of that count the lexicographically smallest pair
C1_PopGreatest ==
    pc = "popped" =>
        \A e \in BagToSet(queue) :
            \/ e.count < top.count
            \/ (e.count = top.count /\ LexLeq(top.pair, e.pair))

\* a pop that had to break a tie between two pairs of the same count
C1_Witness ==
    /\ pc = "popped"
    /\ \E e \in BagToSet(queue) : e.count = top.count /\ e.pair /= top.pair

\* C2: when the loop emits a merge, the current count of the merged pair is
\* at least the current count of every other pair that has a queue entry
C2_MergedPairIsBest ==
    [][Emits =>
        \A e \in BagToSet(queue) :
            e.pair /= top.pair => pair_counts[top.pair] >= pair_counts[e.pair]]_vars

\* C3: a merge is emitted only for a pair whose current count is at least 1
\* and at least min_frequency, and a popped entry that is not stale and is
\* below that floor ends the loop without a merge
C3_FrequencyFloor ==
    [][/\ Emits =>
            /\ pair_counts[top.pair] >= 1
            /\ pair_counts[top.pair] >= self.min_frequency
       /\ (/\ pc = "popped"
           /\ top.count = pair_counts[top.pair]
           /\ (top.count < 1 \/ top.count < self.min_frequency))
          => (pc' = "transfer" /\ merges' = merges /\ word_to_id' = word_to_id)]_vars

\* the loop stopped at an entry whose count is positive but below min_frequency
C3_Witness ==
    /\ pc = "popped"
    /\ top.count = pair_counts[top.pair]
    /\ top.count >= 1
    /\ top.count < self.min_frequency

\* C4: the loop adds a symbol or a rule only while the vocabulary is smaller
\* than vocab_size, and at most one symbol per step, so the vocabulary never
\* grows beyond max(vocab_size, its size on entry)
C4_VocabSizeBound ==
    [][InLoop =>
        /\ Cardinality(DOMAIN word_to_id') <= Cardinality(DOMAIN word_to_id) + 1
        /\ (word_to_id' /= word_to_id \/ merges' /= merges)
              => Cardinality(DOMAIN word_to_id) < self.vocab_size
        /\ Cardinality(DOMAIN word_to_id') <=
              (IF Cardinality(DOMAIN word_to_id) >= self.vocab_size
               THEN Cardinality(DOMAIN word_to_id) ELSE self.vocab_size)]_vars

\* the loop was left because the vocabulary reached vocab_size after a merge
C4_Witness ==
    /\ pc = "transfer"
    /\ merges /= <<>>
    /\ queue /= EmptyBag
    /\ Cardinality(DOMAIN word_to_id) = self.vocab_size

\* the rules the discovery loop emitted: all of them, or those after the replay
DiscoveryRules ==
    {i \in DOMAIN merges : ExtendMode => i > Len(merge_order)}

\* C5: with max_token_length set, no token of a discovery merge has more
\* characters than max_token_length
C5_TokenLengthCap ==
    IsSome(self.max_token_length) =>
        \A i \in DiscoveryRules :
            Len(id_to_word[merges[i][2] + 1]) <= Unwrap(self.max_token_length)

EndsWithDigit(tok) == tok /= <<>> /\ tok[Len(tok)] = "9"
BeginsWithDigit(tok) == tok /= <<>> /\ tok[1] = "9"

\* C6 as claimed: no discovery merge, of the standalone loop or of the loop
\* after the replay, joins a left part ending with a digit or a right part
\* beginning with one
C6_NoDigitBoundary ==
    \A i \in DiscoveryRules :
        /\ ~EndsWithDigit(id_to_word[merges[i][1][1] + 1])
        /\ ~BeginsWithDigit(id_to_word[merges[i][1][2] + 1])

\* the right part as the merge concatenates it
Stripped(tok) ==
    IF /\ IsSome(self.continuing_subword_prefix)
       /\ Len(Unwrap(self.continuing_subword_prefix)) <= Len(tok)
       /\ SubSeq(tok, 1, Len(Unwrap(self.continuing_subword_prefix)))
             = Unwrap(self.continuing_subword_prefix)
    THEN SubSeq(tok, Len(Unwrap(self.continuing_subword_prefix)) + 1, Len(tok))
    ELSE tok

\* C6 as amended: in extend mode no merge of the loop after the replay joins
\* a left part ending with a digit or a right part that, its leading
\* continuing_subword_prefix removed, begins with one
C6_NoDigitBoundaryAfterReplay ==
    ExtendMode =>
        \A i \in DiscoveryRules :
            /\ ~EndsWithDigit(id_to_word[merges[i][1][1] + 1])
            /\ ~BeginsWithDigit(Stripped(id_to_word[merges[i][1][2] + 1]))

\* the loop after the replay merged a pair although the words hold a pair
\* that crosses a digit boundary
C6_Witness ==
    /\ ExtendMode
    /\ DiscoveryRules /= {}
    /\ \E p \in DOMAIN pair_counts :
        /\ pair_counts[p] > 0
        /\ EndsWithDigit(id_to_word[p[1] + 1])

RECURSIVE ApplyRule(_, _, _)
\* one rule over the ids of a word: every occurrence of the pair that does
\* not overlap an earlier one, from the left
ApplyRule(ids, pair, new_id) ==
    IF Len(ids) < 2 THEN ids
    ELSE IF ids[1] = pair[1] /\ ids[2] = pair[2]
         THEN <<new_id>> \o ApplyRule(SubSeq(ids, 3, Len(ids)), pair, new_id)
         ELSE <<ids[1]>> \o ApplyRule(Tail(ids), pair, new_id)

RECURSIVE ReplayRules(_, _)
\* the rules of ms one after another, in list order
ReplayRules(ids, ms) ==
    IF ms = <<>> THEN ids
    ELSE ReplayRules(ApplyRule(ids, Head(ms)[1], Head(ms)[2]), Tail(ms))

\* C7: when training ends, applying the emitted rules in order to the words
\* as tokenize_words encoded them gives the symbols of every word
C7_ReplayProperty ==
    pc = "done" =>
        \A w \in DOMAIN words :
            ReplayRules(GetChars(encoded[w]), merges) = GetChars(words[w])

\* the replay of merges.txt is over
Replayed == ExtendMode /\ pc \in {"special", "loop", "popped", "transfer", "done"}

\* rule i joins the two symbols line i of merges.txt names
FromMergeOrder(i) ==
    /\ id_to_word[merges[i][1][1] + 1] = merge_order[i][1]
    /\ id_to_word[merges[i][1][2] + 1] = merge_order[i][2]

\* C8: in extend mode the emitted list begins with one rule per line of
\* merges.txt, in the order of the file, and every later rule is one the loop
\* after the replay took from its queue
C8_ExtendPrefix ==
    /\ [](/\ (ExtendMode /\ pc = "replay") =>
                /\ Len(merges) = merge_idx
                /\ \A i \in DOMAIN merges : FromMergeOrder(i)
          /\ Replayed =>
                /\ Len(merges) >= Len(merge_order)
                /\ \A i \in DOMAIN merge_order : FromMergeOrder(i))
    /\ [][(Replayed /\ merges' /= merges) =>
            (pc = "popped" /\ SubSeq(merges', 1, Len(merges)) = merges)]_vars

\* the replay emitted a rule for a pair no word holds, and the loop after it
\* added a rule of its own
C8_Witness ==
    /\ Replayed
    /\ Len(merges) > Len(merge_order)
    /\ \E i \in DOMAIN merge_order :
        \A w \in DOMAIN encoded :
            ReplayRules(GetChars(encoded[w]), SubSeq(merges, 1, i))
                = ReplayRules(GetChars(encoded[w]), SubSeq(merges, 1, i - 1))

\* C9: word_to_id and id_to_word have the same size and are inverse to each
\* other at every point of a run
C9_VocabBijection ==
    /\ Cardinality(DOMAIN word_to_id) = Len(id_to_word)
    /\ \A s \in DOMAIN word_to_id :
        /\ word_to_id[s] + 1 \in DOMAIN id_to_word
        /\ id_to_word[word_to_id[s] + 1] = s
    /\ \A i \in DOMAIN id_to_word :
        /\ id_to_word[i] \in DOMAIN word_to_id
        /\ word_to_id[id_to_word[i]] = i - 1

\* C10: the two ids of every emitted rule are indices of id_to_word when the
\* rule is emitted, and the symbol of its new id is the left symbol followed
\* by the right symbol without its leading continuing_subword_prefix
C10_MergeSymbols ==
    [][merges' /= merges =>
        LET rule == merges'[Len(merges')] IN
        /\ merges' = Append(merges, rule)
        /\ rule[1][1] + 1 \in DOMAIN id_to_word
        /\ rule[1][2] + 1 \in DOMAIN id_to_word
        /\ rule[2] + 1 \in DOMAIN id_to_word'
        /\ id_to_word'[rule[2] + 1] =
              id_to_word[rule[1][1] + 1] \o Stripped(id_to_word[rule[1][2] + 1])]_vars

\* a rule whose right symbol began with the continuing_subword_prefix
C10_Witness ==
    /\ IsSome(self.continuing_subword_prefix)
    /\ \E i \in DOMAIN merges :
        Stripped(id_to_word[merges[i][1][2] + 1]) /= id_to_word[merges[i][1][2] + 1]

\* C11: the rank the model stores for a pair is the (0-based) index at which
\* its rule was appended to the emitted list, the last such index when the
\* pair was emitted more than once; the list only grows at its end, one rule
\* per step, so a smaller rank is an earlier selection
C11_RankIsIndex ==
    /\ [](pc = "done" =>
            /\ DOMAIN model.merges = {merges[i][1] : i \in DOMAIN merges}
            /\ \A p \in DOMAIN model.merges :
                LET rank == model.merges[p][1] IN
                /\ rank + 1 \in DOMAIN merges
                /\ merges[rank + 1] = <<p, model.merges[p][2]>>
                /\ \A j \in DOMAIN merges : merges[j][1] = p => j <= rank + 1)
    /\ [][merges' /= merges =>
            /\ Len(merges') = Len(merges) + 1
            /\ SubSeq(merges', 1, Len(merges)) = merges]_vars

\* a model that holds two rules emitted one after the other
C11_Witness ==
    /\ pc = "done"
    /\ Len(merges) >= 2
    /\ merges[1][1] /= merges[2][1]
    /\ model.merges[merges[1][1]][1] = 0
    /\ model.merges[merges[2][1]][1] = 1

\* the entry the replay is at names a symbol that is not in the vocabulary
SymbolMissing ==
    /\ ExtendMode
    /\ pc = "replay"
    /\ merge_idx < Len(merge_order)
    /\ \/ merge_order[merge_idx + 1][1] \notin DOMAIN word_to_id
       \/ merge_order[merge_idx + 1][2] \notin DOMAIN word_to_id

\* C12: when the replay reaches an entry with a missing symbol the run ends
\* with a panic that names it, the left one when both are missing; no rule is
\* emitted for that entry or a later one and the model is left as it was
C12_MissingSymbolAborts ==
    /\ [][SymbolMissing =>
            /\ pc' = "panic"
            /\ panic'.msg = "{} not found in word_to_id"
            /\ panic'.token =
                  (IF merge_order[merge_idx + 1][1] \notin DOMAIN word_to_id
                   THEN merge_order[merge_idx + 1][1]
                   ELSE merge_order[merge_idx + 1][2])
            /\ merges' = merges
            /\ model' = model]_vars
    /\ [][pc /= "panic"]_vars
    /\ []((pc = "panic" /\ panic.msg = "{} not found in word_to_id") =>
            /\ model = NoModel
            /\ Len(merges) = merge_idx
            /\ merge_idx < Len(merge_order))

\* the run ended at an entry neither symbol of which was in the vocabulary
C12_Witness ==
    /\ pc = "panic"
    /\ panic.msg = "{} not found in word_to_id"
    /\ merge_order[merge_idx + 1][1] \notin DOMAIN word_to_id
    /\ merge_order[merge_idx + 1][2] \notin DOMAIN word_to_id
    /\ panic.token = merge_order[merge_idx + 1][1]

\* every line of a file carries the id the vocabulary length gives it, the
\* vocabulary holding `start` symbols before the first line
IdsInSequence(lines, start) ==
    \A i \in DOMAIN lines : lines[i].token_id = start + i - 1

\* line i names a symbol that the vocabulary or an earlier line already holds
AlreadyPresent(lines, i) ==
    \/ lines[i].token \in DOMAIN word_to_id
    \/ \E j \in 1..(i - 1) : lines[j].token = lines[i].token

\* the lines add_special_tokens stops at
BadSpecialLines ==
    {i \in DOMAIN files.special_tokens :
        \/ files.special_tokens[i].token_id /= Len(id_to_word) + i - 1
        \/ AlreadyPresent(files.special_tokens, i)}

\* C13: a file is loaded only if every line carries the id that equals the
\* vocabulary length when the line is read, and special_tokens.txt only if no
\* line names a symbol already there; the first line that fails this ends the
\* run; after a load the symbols of the file have consecutive ids in the
\* order of the file
C13_LoadInSequence ==
    [][/\ pc = "special" =>
            /\ (pc' = "panic") <=> (BadSpecialLines /= {})
            /\ BadSpecialLines /= {} =>
                 LET first == CHOOSE i \in BadSpecialLines :
                                  \A j \in BadSpecialLines : i <= j
                 IN panic'.token = files.special_tokens[first].token
            /\ BadSpecialLines = {} =>
                 /\ Len(id_to_word') = Len(id_to_word) + Len(files.special_tokens)
                 /\ SubSeq(id_to_word', 1, Len(id_to_word)) = id_to_word
                 /\ \A i \in DOMAIN files.special_tokens :
                      /\ id_to_word'[Len(id_to_word) + i] = files.special_tokens[i].token
                      /\ word_to_id'[files.special_tokens[i].token] = Len(id_to_word) + i - 1
       /\ pc = "load_alphabet" =>
            /\ (pc' = "panic") <=> ~IdsInSequence(files.alphabet, Len(id_to_word))
            /\ pc' /= "panic" =>
                 /\ Len(id_to_word') = Len(id_to_word) + Len(files.alphabet)
                 /\ \A i \in DOMAIN files.alphabet :
                      id_to_word'[Len(id_to_word) + i] = files.alphabet[i].token]_vars

\* special_tokens.txt was loaded on top of a vocabulary that was not empty
C13_Witness ==
    /\ pc = "loop"
    /\ top = NoTop
    /\ merges = <<>>
    /\ files.special_tokens /= <<>>
    /\ files.special_tokens[1].token_id > 0
    /\ word_to_id[files.special_tokens[1].token] = files.special_tokens[1].token_id

\* compute_alphabet has just run
AlphabetComputed == ~ExtendMode /\ pc = "tokenize"

\* C14 as claimed: after compute_alphabet every character of initial_alphabet
\* is in the vocabulary, whatever limit_alphabet is
C14_InitialAlphabetKept ==
    AlphabetComputed =>
        \A c \in self.initial_alphabet : <<c>> \in DOMAIN word_to_id

\* C14 as amended: after compute_alphabet every character of initial_alphabet
\* is in the vocabulary when limit_alphabet is unset or is at least the number
\* of characters of initial_alphabet
C14_InitialAlphabetKeptWithinLimit ==
    (/\ AlphabetComputed
     /\ IsSome(self.limit_alphabet) =>
            Cardinality(self.initial_alphabet) <= Unwrap(self.limit_alphabet)) =>
        \A c \in self.initial_alphabet : <<c>> \in DOMAIN word_to_id

\* the cap removed a character of the text and kept the initial alphabet
C14_Witness ==
    /\ AlphabetComputed
    /\ IsSome(self.limit_alphabet)
    /\ self.initial_alphabet /= {}
    /\ Cardinality(self.initial_alphabet) <= Unwrap(self.limit_alphabet)
    /\ \E i \in DOMAIN word_counts : \E j \in DOMAIN word_counts[i][1] :
        <<word_counts[i][1][j]>> \notin DOMAIN word_to_id
    /\ \A c \in self.initial_alphabet : <<c>> \in DOMAIN word_to_id

\* the characters compute_alphabet kept: those of the text and of
\* initial_alphabet that are in the vocabulary after it
Survivors ==
    {c \in UNION {{word_counts[i][1][j] : j \in DOMAIN word_counts[i][1]} :
                     i \in DOMAIN word_counts} \cup self.initial_alphabet :
        <<c>> \in DOMAIN word_to_id'}

\* the ids of S are consecutive from `first` on, in ascending order of the
\* Unicode scalar values of the characters
AscendingFrom(S, first) ==
    \A c \in S :
        word_to_id'[<<c>>] = first + Cardinality({d \in S : CharCode(d) < CharCode(c)})

\* C15 as claimed: compute_alphabet gives the surviving characters consecutive
\* ids in ascending order of their scalar values, directly after the special
\* tokens
C15_AlphabetIds ==
    [][pc = "alphabet" =>
        AscendingFrom(Survivors, Len(files.special_tokens))]_vars

\* C15 as amended: compute_alphabet gives the surviving characters that are
\* not special tokens consecutive ids in ascending order of their scalar
\* values, directly after the special tokens; a surviving character that is a
\* special token keeps the id of the special token
C15_NewAlphabetIds ==
    [][pc = "alphabet" =>
        /\ Len(id_to_word) = Len(files.special_tokens)
        /\ AscendingFrom({c \in Survivors : <<c>> \notin DOMAIN word_to_id},
                         Len(files.special_tokens))
        /\ \A c \in Survivors :
             <<c>> \in DOMAIN word_to_id => word_to_id'[<<c>>] = word_to_id[<<c>>]
        /\ Len(id_to_word') = Len(id_to_word) +
             Cardinality({c \in Survivors : <<c>> \notin DOMAIN word_to_id})]_vars

\* two characters were given ids after a special token, the text naming the
\* one of the greater scalar value first
C15_Witness ==
    /\ AlphabetComputed
    /\ files.special_tokens /= <<>>
    /\ <<"9">> \in DOMAIN word_to_id /\ <<"a">> \in DOMAIN word_to_id
    /\ word_to_id[<<"9">>] = Len(files.special_tokens)
    /\ word_to_id[<<"a">>] = Len(files.special_tokens) + 1
    /\ word_counts /= <<>>
    /\ word_counts[1][1][1] = "a"

\* the entries of the word-count map in one fixed order, the same for every
\* iteration order of the same map
FixedOrder(wc) ==
    LET S == {wc[i] : i \in DOMAIN wc}
    IN CHOOSE o \in [1..Cardinality(S) -> S] :
            \A i, j \in DOMAIN o : i /= j => o[i] /= o[j]

RECURSIVE FixedLoop(_, _, _)
\* the loop of do_train_original from state st on, a greatest entry and an
\* order of rewriting fixed by CHOOSE at every merge
FixedLoop(t, cs, st) ==
    IF Cardinality(DOMAIN st.w2id) >= t.vocab_size \/ st.queue = EmptyBag THEN st
    ELSE LET e == CHOOSE x \in Greatest(st.queue) : TRUE
             rest == st.queue (-) SetToBag({e})
             now == AsU64(st.pair_counts[e.pair])
         IN IF e.count /= now
            THEN FixedLoop(t, cs, [st EXCEPT !.queue =
                                      rest (+) SetToBag({[e EXCEPT !.count = now]})])
            ELSE IF e.count < 1 \/ t.min_frequency > e.count THEN st
            ELSE LET new_token == NewToken(st.id2w, e.pair, t.continuing_subword_prefix)
                     new_token_id == NewTokenId(st.w2id, st.id2w, new_token)
                     v == InsertToken(st.w2id, st.id2w, new_token)
                     order == CHOOSE o \in Orders(e.pos) : TRUE
                     rw == RewriteWords(st.words, order, e.pair, new_token_id,
                                        MaxTokenLen(t.max_token_length), <<>>)
                     rc == ApplyChanges(rw.changes, cs, st.pair_counts, EmptyMap)
                 IN FixedLoop(t, cs,
                        [w2id |-> v.w2id, id2w |-> v.id2w, words |-> rw.words,
                         pair_counts |-> rc.pair_counts,
                         queue |-> rest (+) SetToBag(FreshEntries(rc.where_to_update,
                                                                  rc.pair_counts)),
                         merges |-> Append(st.merges, <<e.pair, new_token_id>>)])

\* one standalone run over wc with no character removed from the alphabet
FixedRun(t, f, wc) ==
    LET sp == LoadSpecialTokens(f.special_tokens, EmptyMap, <<>>)
        al == PushNew(SortByCode(DOMAIN AlphabetMap(wc, t.initial_alphabet)),
                      sp.w2id, sp.id2w)
        tk == TokenizeWords(wc, <<>>, <<>>, al.w2id, al.id2w,
                            t.continuing_subword_prefix, t.end_of_word_suffix)
        cp == CountPairs(tk.words, tk.counts)
    IN FixedLoop(t, tk.counts,
           [w2id |-> tk.w2id, id2w |-> tk.id2w, words |-> tk.words,
            pair_counts |-> cp.pair_counts,
            queue |-> SetToBag(FreshEntries(cp.where_to_update, cp.pair_counts)),
            merges |-> <<>>])

\* the run is a standalone one that removed no character from the alphabet
NoCapInEffect ==
    /\ ~ExtendMode
    /\ ToRemove(AlphabetMap(word_counts, self.initial_alphabet), self.limit_alphabet) = 0

\* C16: a standalone run with no alphabet cap in effect ends with the
\* vocabulary and the merge list of the run over the same map in the fixed
\* order, whatever the order the map was iterated in, the greatest entry popped
\* and the order of the rewrites
C16_Determinism ==
    (pc = "done" /\ NoCapInEffect) =>
        LET ref == FixedRun(self, files, FixedOrder(word_counts))
        IN /\ model.vocab = ref.w2id
           /\ merges = ref.merges

\* C17: the discovery loop is always left, and a run whose queue empties
\* before the vocabulary reaches vocab_size ends without a panic, the model
\* holding the vocabulary and every rule emitted so far
C17_LoopTerminates ==
    /\ InLoop ~> (pc \in {"transfer", "done"})
    /\ (pc = "loop" /\ queue = EmptyBag /\ ~VocabFull)
          ~> (/\ pc = "done"
              /\ panic = NoPanic
              /\ model.vocab = word_to_id
              /\ DOMAIN model.merges = {merges[i][1] : i \in DOMAIN merges})

\* a run that ended with rules, the queue having emptied below vocab_size
\* and some pair's count having fallen to zero or below
C17_Witness ==
    /\ pc = "done"
    /\ queue = EmptyBag
    /\ merges /= <<>>
    /\ Cardinality(DOMAIN word_to_id) < self.vocab_size
    /\ \E p \in DOMAIN pair_counts : pair_counts[p] <= 0

\* the processor refuses one of the sequences this call of feed was given
Refused == \E i \in DOMAIN feed.iterator : feed.iterator[i] \in feed.rejects

\* C18: while a call of feed that holds a sequence its processor refuses is
\* running, self.words is not changed by any step, and the call returns the
\* error the processor raised for one of its sequences
C18_FeedErrorKeepsWords ==
    [][(pc = "feed" /\ Refused) =>
          /\ self_words' = self_words
          /\ pc' = "fed" =>
                /\ ~Unwrap(feed'.ret).ok
                /\ Unwrap(feed'.ret).val \in feed.rejects
                /\ \E i \in DOMAIN feed.iterator :
                      feed.iterator[i] = Unwrap(feed'.ret).val]_vars

\* feed has returned an error on a trainer that held counts, one sequence
\* having been refused and another one counted
C18_Witness ==
    /\ pc = "fed"
    /\ Refused
    /\ \E i \in DOMAIN feed.iterator :
          feed.iterator[i] \notin feed.rejects /\ feed.iterator[i] /= <<>>
    /\ self_words /= EmptyMap
    /\ ~Unwrap(feed.ret).ok

\* the popped entry's cached count is not the count pair_counts holds
StalePop == pc = "popped" /\ top.count /= AsU64(pair_counts[top.pair])

\* C19: the step after a stale pop merges nothing: it puts the entry back with
\* the count pair_counts holds and the same positions, goes back to the head
\* of the loop, and leaves vocabulary, merge list, words and pair_counts alone
C19_StaleEntryRepushed ==
    [][StalePop =>
          /\ queue' = queue (+) SetToBag({Merge(top.pair,
                                                AsU64(pair_counts[top.pair]),
                                                top.pos)})
          /\ pc' = "loop"
          /\ UNCHANGED <<word_to_id, id_to_word, merges, words, counts,
                         pair_counts, model>>]_vars

\* after a merge, a stale entry of a pair that still occurs is about to be
\* put back
C19_Witness ==
    /\ StalePop
    /\ top.pos /= {}
    /\ merges /= <<>>
    /\ pair_counts[top.pair] > 0

\* every entry of the queue caches at least the count pair_counts holds
CachedAtLeastCurrent ==
    \A e \in BagToSet(queue) : e.count >= pair_counts[e.pair]

\* C20: while the queue is in use every entry's cached count is at least the
\* current count of its pair, and when the frequency floor stops the loop no
\* pair with an entry left in the queue has a current count that is at least
\* 1 and at least min_frequency
C20_CachedCountBounds ==
    /\ []((pc \in {"loop", "popped", "replay"}) => CachedAtLeastCurrent)
    /\ [][(pc = "popped" /\ pc' = "transfer") =>
            \A e \in BagToSet(queue) :
                ~(pair_counts[e.pair] >= 1
                  /\ pair_counts[e.pair] >= self.min_frequency)]_vars

\* the next line of merges.txt names two known symbols whose pair has no
\* entry in the queue
ListedPairNotQueued ==
    /\ pc = "replay"
    /\ merge_idx < Len(merge_order)
    /\ NextLeft \in DOMAIN word_to_id
    /\ NextRight \in DOMAIN word_to_id
    /\ \A e \in BagToSet(queue) :
          e.pair /= <<word_to_id[NextLeft], word_to_id[NextRight]>>

\* C21: replaying a listed merge whose pair is not in the queue appends one
\* rule for that pair, adds the concatenated symbol with the next id when it
\* is new and leaves the vocabulary alone when it is not, and changes no
\* word, no count, no pair count and no queue entry
C21_PhantomReplayFrame ==
    [][ListedPairNotQueued =>
          LET pair == <<word_to_id[NextLeft], word_to_id[NextRight]>>
              tok == id_to_word[pair[1] + 1]
                     \o StripPrefix(id_to_word[pair[2] + 1],
                                    self.continuing_subword_prefix)
          IN /\ Len(merges') = Len(merges) + 1
             /\ SubSeq(merges', 1, Len(merges)) = merges
             /\ merges'[Len(merges')][1] = pair
             /\ merges'[Len(merges')][2] = word_to_id'[tok]
             /\ IF tok \in DOMAIN word_to_id
                THEN UNCHANGED <<word_to_id, id_to_word>>
                ELSE /\ id_to_word' = Append(id_to_word, tok)
                     /\ word_to_id' = Insert(word_to_id, tok, Len(id_to_word))
             /\ UNCHANGED <<words, counts, pair_counts, queue>>]_vars

\* a listed pair is not in the queue although words were counted and a rule
\* has been replayed before it
C21_Witness ==
    /\ ListedPairNotQueued
    /\ queue /= EmptyBag
    /\ merges /= <<>>
    /\ \E i \in DOMAIN words : Len(words[i]) >= 2

\* the text of the symbol the pair would merge into
MergedText(pair) ==
    id_to_word[pair[1] + 1]
    \o StripPrefix(id_to_word[pair[2] + 1], self.continuing_subword_prefix)

\* the number of non-empty pieces of the text between U+0120
Pieces(text) ==
    Cardinality({j \in DOMAIN text :
                    text[j] /= "G" /\ (j = 1 \/ text[j - 1] = "G")})

\* the popped candidate of the loop after the replay is current and above the
\* floor, and its symbol has more than 20 pieces or crosses a digit boundary
SkippedCandidate ==
    /\ ExtendMode
    /\ pc = "popped"
    /\ top.count = AsU64(pair_counts[top.pair])
    /\ top.count >= 1 /\ top.count >= self.min_frequency
    /\ \/ Pieces(MergedText(top.pair)) > 20
       \/ EndsWithDigit(id_to_word[top.pair[1] + 1])
       \/ BeginsWithDigit(StripPrefix(id_to_word[top.pair[2] + 1],
                                      self.continuing_subword_prefix))

\* C22: a candidate of more than 20 pieces or across a digit boundary is
\* dropped: vocabulary, merge list, words and pair_counts stay as they are,
\* no other queue entry is touched, and the loop goes back to its head
C22_FilteredCandidateSkipped ==
    [][SkippedCandidate =>
          /\ pc' = "loop"
          /\ UNCHANGED <<word_to_id, id_to_word, merges, words, counts,
                         pair_counts, queue>>]_vars

\* the loop after the replay has popped a candidate it will merge, after it
\* dropped a candidate of more than 20 pieces that was ahead of it
C22_Witness ==
    /\ ExtendMode
    /\ pc = "popped"
    /\ top.count = AsU64(pair_counts[top.pair])
    /\ top.count >= 1 /\ top.count >= self.min_frequency
    /\ ~Filtered(top.pair)
    /\ \E p \in DOMAIN pair_counts :
          /\ Pieces(MergedText(p)) > 20
          /\ pair_counts[p] > top.count
          /\ \A e \in BagToSet(queue) : e.pair /= p

\* the number of places where p[1] is immediately followed by p[2] in word w
Adjacent(w, p) ==
    Cardinality({k \in 1..(Len(w) - 1) : w[k].c = p[1] /\ w[k + 1].c = p[2]})

RECURSIVE WeightedOccurrences(_, _)
\* the sum over the words from i on of counts[i] times Adjacent(words[i], p)
WeightedOccurrences(p, i) ==
    IF i > Len(words) THEN 0
    ELSE counts[i] * Adjacent(words[i], p) + WeightedOccurrences(p, i + 1)

\* the pairs that occur in a word or have a count
KnownPairs ==
    DOMAIN pair_counts
    \cup UNION {{<<words[i][k].c, words[i][k + 1].c>> : k \in 1..(Len(words[i]) - 1)} :
                   i \in DOMAIN words}

MergedPairs == {merges[i][1] : i \in DOMAIN merges}

\* pair indexing is over and no merge iteration is half done
BetweenIterations == pc \in {"replay", "special", "loop", "transfer", "done"}

\* C23: without a length cap, once the pairs are indexed and between merge
\* iterations, the count of every pair that has not been merged is the sum
\* over the words of the word's count times the pair's occurrences in it
C23_PairCountsExact ==
    (BetweenIterations /\ self.max_token_length = NoneOpt /\ words /= <<>>) =>
        \A p \in KnownPairs \ MergedPairs :
            Get(pair_counts, p, 0) = WeightedOccurrences(p, 1)

\* after a merge, a pair that was not merged still occurs in the words
C23_Witness ==
    /\ BetweenIterations
    /\ self.max_token_length = NoneOpt
    /\ merges /= <<>>
    /\ \E p \in KnownPairs \ MergedPairs :
          WeightedOccurrences(p, 1) >= 2 /\ p[2] = merges[Len(merges)][2]

\* the indices of the words in which pair p occurs
WordsWith(p) == {i \in DOMAIN words : Adjacent(words[i], p) > 0}

\* the entry this step takes from the queue and merges: the popped one in
\* the loops, the one of the listed pair in the replay
MergedEntries ==
    IF pc = "popped" THEN {top}
    ELSE IF pc = "replay" /\ merge_idx < Len(merge_order)
            /\ NextLeft \in DOMAIN word_to_id /\ NextRight \in DOMAIN word_to_id
    THEN {e \in BagToSet(queue) :
             e.pair = <<word_to_id[NextLeft], word_to_id[NextRight]>>}
    ELSE {}

\* the step merges an entry of the queue: it rewrites words or is the step
\* of the loop that appends a rule
MergesEntry == MergedEntries /= {} /\ merges' /= merges

\* C24: the positions of an entry that is merged hold the index of every word
\* in which its pair occurs, and with no length cap no word holds the pair
\* once the merge is done
C24_PositionsCoverPair ==
    [][MergesEntry =>
          /\ \A e \in MergedEntries : WordsWith(e.pair) \subseteq e.pos
          /\ self.max_token_length = NoneOpt =>
                \A e \in MergedEntries : \A i \in DOMAIN words' :
                    Adjacent(words'[i], e.pair) = 0]_vars

\* C25: in a rewrite region no word index is handed to a task twice and no
\* two running tasks hold the same word; a step that writes words is the
\* tokenization or the return of one running task, which writes that task's
\* word and no other
C25_OneWriterPerWord ==
    /\ [](pc = "rewrite" =>
            \A i \in DOMAIN words :
                /\ CopiesIn(i, region.handed) <= 1
                /\ CopiesIn(i, region.running) <= 1)
    /\ [][words' /= words =>
            \/ pc = "tokenize"
            \/ /\ pc = "rewrite"
               /\ \E i \in BagToSet(region.running) :
                     /\ region'.running = region.running (-) SetToBag({i})
                     /\ \A j \in DOMAIN words : j /= i => words'[j] = words[j]]_vars

\* two tasks of one region are running, on two words
C25_Witness ==
    /\ pc = "rewrite"
    /\ BagCardinality(region.running) >= 2

\* the iteration of the region run by one worker, the words taken in one
\* order: the words, the pair counts and the entries it pushes
OneWorker ==
    LET order == CHOOSE o \in Orders(region.pos) : TRUE
        rw == RewriteWords(region.before, order, region.pair, region.new_token_id,
                           MaxTokenLen(self.max_token_length), <<>>)
        rc == ApplyChanges(rw.changes, counts, pair_counts, where_to_update)
    IN [words |-> rw.words, pair_counts |-> rc.pair_counts,
        fresh |-> FreshEntries(rc.where_to_update, rc.pair_counts)]

\* C26: whatever the order in which the tasks of a region start and return
\* and in which their changes are collected, the iteration ends with the
\* words, the pair counts and the pushed entries of a run by one worker
C26_OrderUnobservable ==
    [][(pc = "rewrite" /\ pc' /= "rewrite") =>
          /\ words' = OneWorker.words
          /\ pair_counts' = OneWorker.pair_counts
          /\ queue' = IF region.replay THEN InsertAll(queue, OneWorker.fresh)
                      ELSE queue (+) SetToBag(OneWorker.fresh)]_vars

\* a region of two words with different counts is about to end, both words
\* rewritten and their changes touching one pair
C26_Witness ==
    /\ pc = "rewrite"
    /\ Unhanded(region) = {}
    /\ region.running = EmptyBag
    /\ \E i, j \in region.pos :
          /\ i /= j
          /\ counts[i] /= counts[j]
          /\ words[i] /= region.before[i]
          /\ words[j] /= region.before[j]
          /\ \E k \in DOMAIN region.changes[i], l \in DOMAIN region.changes[j] :
                region.changes[i][k][1][1] = region.changes[j][l][1][1]

\* the pairs that occur in a word
OccurringPairs ==
    UNION {{<<words[i][k].c, words[i][k + 1].c>> : k \in 1..(Len(words[i]) - 1)} :
              i \in DOMAIN words}

\* C27: however the words are split among the workers and the partial
\* results reduced, count_pairs returns for each pair that occurs the sum of
\* count times occurrences and exactly the indices of the words holding it,
\* and nothing for any other pair; the loop starts from these counts, with
\* one entry per pair
C27_CountPairsExact ==
    [][pc = "count" =>
          LET exact == [pair_counts |->
                           [p \in OccurringPairs |-> WeightedOccurrences(p, 1)],
                        where_to_update |->
                           [p \in OccurringPairs |-> WordsWith(p)]]
          IN /\ AllReductions(words, counts, DOMAIN words) = {exact}
             /\ pair_counts' = exact.pair_counts
             /\ queue' = SetToBag({Merge(p, exact.pair_counts[p],
                                         exact.where_to_update[p]) :
                                      p \in OccurringPairs})]_vars

\* pairs are about to be counted in two words that share a pair, one of
\* them holding it twice
C27_Witness ==
    /\ pc = "count"
    /\ \E i, j \in DOMAIN words : \E p \in OccurringPairs :
          /\ i /= j
          /\ Adjacent(words[i], p) >= 2
          /\ Adjacent(words[j], p) >= 1

\* the positions of the characters of w whose bare form is in the vocabulary
KeptPositions(w) == {j \in DOMAIN w : <<w[j]>> \in DOMAIN word_to_id}

\* character j of w with the prefix unless it is the first character of w
\* and with the suffix if it is the last one
Decorated(w, j) ==
    (IF j > 1 /\ IsSome(self.continuing_subword_prefix)
     THEN Unwrap(self.continuing_subword_prefix) ELSE <<>>)
    \o <<w[j]>>
    \o (IF j = Len(w) /\ IsSome(self.end_of_word_suffix)
        THEN Unwrap(self.end_of_word_suffix) ELSE <<>>)

\* C28: tokenize_words returns a word and a count for each entry of the word
\* counts, in their order; each word holds, in order, the ids of the decorated
\* symbols of the characters whose bare form is in the vocabulary; the
\* vocabulary keeps what it had and gains exactly the decorated symbols it
\* lacked, each with the next id
C28_TokenizeWords ==
    [][pc = "tokenize" =>
          LET symbols == UNION {{Decorated(word_counts[k][1], j) :
                                    j \in KeptPositions(word_counts[k][1])} :
                                   k \in DOMAIN word_counts}
              old == Len(id_to_word)
          IN /\ Len(words') = Len(word_counts)
             /\ Len(counts') = Len(word_counts)
             /\ \A k \in DOMAIN word_counts :
                   LET w == word_counts[k][1]
                       kept == KeptPositions(w)
                   IN /\ counts'[k] = word_counts[k][2]
                      /\ Len(words'[k]) = Cardinality(kept)
                      /\ \A j \in kept :
                            words'[k][Cardinality({i \in kept : i <= j})].c
                               = word_to_id'[Decorated(w, j)]
             /\ DOMAIN word_to_id' = DOMAIN word_to_id \cup symbols
             /\ \A s \in DOMAIN word_to_id : word_to_id'[s] = word_to_id[s]
             /\ Len(id_to_word') = old + Cardinality(symbols \ DOMAIN word_to_id)
             /\ SubSeq(id_to_word', 1, old) = id_to_word
             /\ \A i \in (old + 1)..Len(id_to_word') :
                   /\ id_to_word'[i] \in symbols \ DOMAIN word_to_id
                   /\ word_to_id'[id_to_word'[i]] = i - 1]_vars

\* words are about to be encoded with prefix and suffix, one of them losing
\* its first character and another one every character
C28_Witness ==
    /\ pc = "tokenize"
    /\ IsSome(self.continuing_subword_prefix)
    /\ IsSome(self.end_of_word_suffix)
    /\ \E k, l \in DOMAIN word_counts :
          /\ KeptPositions(word_counts[k][1]) = {}
          /\ 1 \notin KeptPositions(word_counts[l][1])
          /\ 2 \in KeptPositions(word_counts[l][1])

\* the distinct characters of the text and of initial_alphabet
AllChars ==
    UNION {{word_counts[i][1][j] : j \in DOMAIN word_counts[i][1]} :
              i \in DOMAIN word_counts} \cup self.initial_alphabet

RECURSIVE Tally(_, _)
\* the weight of character c in the entries of wc from k on: the sum of
\* count times the occurrences of c in the word
Tally(c, k) ==
    IF k > Len(word_counts) THEN 0
    ELSE word_counts[k][2]
           * Cardinality({j \in DOMAIN word_counts[k][1] : word_counts[k][1][j] = c})
         + Tally(c, k + 1)

\* the weight the cap goes by: the tally, or usize::MAX for a character of
\* initial_alphabet
CapWeight(c) == IF c \in self.initial_alphabet THEN UsizeMax ELSE Tally(c, 1)

\* compute_alphabet adds to the vocabulary exactly the characters of K
Keeps(K) == DOMAIN word_to_id' = DOMAIN word_to_id \cup {<<c>> : c \in K}

\* the number of characters a cap of limit_alphabet leaves
CapSize ==
    IF Cardinality(AllChars) < Unwrap(self.limit_alphabet)
    THEN Cardinality(AllChars) ELSE Unwrap(self.limit_alphabet)

\* C29 as claimed: with limit_alphabet set, compute_alphabet keeps
\* min(n, limit_alphabet) of the n distinct characters, and no dropped
\* character has a greater tallied weight than a kept one
C29_CapByTally ==
    [][(pc = "alphabet" /\ IsSome(self.limit_alphabet)) =>
          \E K \in SUBSET AllChars :
              /\ Cardinality(K) = CapSize
              /\ \A k \in K : \A d \in AllChars \ K : Tally(k, 1) >= Tally(d, 1)
              /\ Keeps(K)]_vars

\* C29 as amended: with limit_alphabet set, compute_alphabet keeps
\* min(n, limit_alphabet) of the n distinct characters, and no dropped
\* character has a greater weight than a kept one, the weight of a character
\* of initial_alphabet being usize::MAX and that of any other its tally
C29_CapByWeight ==
    [][(pc = "alphabet" /\ IsSome(self.limit_alphabet)) =>
          \E K \in SUBSET AllChars :
              /\ Cardinality(K) = CapSize
              /\ \A k \in K : \A d \in AllChars \ K : CapWeight(k) >= CapWeight(d)
              /\ Keeps(K)]_vars

\* the cap has dropped a character: of two characters of the text outside
\* initial_alphabet, the one of the greater tally was kept and the other
\* dropped, and the vocabulary holds limit_alphabet characters
C29_Witness ==
    /\ AlphabetComputed
    /\ IsSome(self.limit_alphabet)
    /\ Unwrap(self.limit_alphabet) < Cardinality(AllChars)
    /\ Cardinality(DOMAIN word_to_id) = Unwrap(self.limit_alphabet)
    /\ \E c, d \in AllChars \ self.initial_alphabet :
           /\ Tally(c, 1) > Tally(d, 1)
           /\ <<c>> \in DOMAIN word_to_id
           /\ <<d>> \notin DOMAIN word_to_id

\* C30: no pair is emitted twice in a run, so the finished model's merges
\* mapping holds one entry per emitted rule and its ranks are exactly
\* 0..n-1 for the n emitted rules, standalone or extending any merge list
C30_OneEntryPerRule ==
    pc = "done" =>
        /\ \A i, j \in DOMAIN merges : merges[i][1] = merges[j][1] => i = j
        /\ Cardinality(DOMAIN model.merges) = Len(merges)
        /\ {model.merges[p][1] : p \in DOMAIN model.merges} = 0 .. Len(merges) - 1

\* the replay is about to take the queue entry of the listed pair
ReplayReads ==
    /\ pc = "replay"
    /\ merge_idx < Len(merge_order)
    /\ NextLeft \in DOMAIN word_to_id /\ NextRight \in DOMAIN word_to_id
    /\ QueueEntries(override_pair) /= {}

\* C31: whenever the stale check (an entry has been popped) or the replay
\* (the listed pair has a queue entry) reads pair_counts for the pair, the
\* value is not negative, so its conversion to u64 is the value itself; and
\* no pair whose count is negative is merged by the discovery loop
C31_ReadCountNotNegative ==
    /\ [](pc = "popped" =>
            /\ top.pair \in DOMAIN pair_counts
            /\ pair_counts[top.pair] >= 0
            /\ AsU64(pair_counts[top.pair]) = pair_counts[top.pair])
    /\ [](ReplayReads =>
            /\ override_pair \in DOMAIN pair_counts
            /\ pair_counts[override_pair] >= 0
            /\ AsU64(pair_counts[override_pair]) = pair_counts[override_pair])
    /\ [][(pc = "popped" /\ merges' /= merges) => pair_counts[top.pair] >= 1]_vars

\* the symbols alphabet.txt lists
AlphabetSymbols == {files.alphabet[i].token : i \in DOMAIN files.alphabet}

\* every symbol of every entry of the merge list is a symbol of alphabet.txt
\* or the concatenation of the two symbols of an earlier entry
ListClosed ==
    \A i \in DOMAIN merge_order : \A k \in 1..2 :
        \/ merge_order[i][k] \in AlphabetSymbols
        \/ \E j \in 1..(i - 1) : merge_order[i][k] = merge_order[j][1] \o merge_order[j][2]

\* extend mode without prefix and suffix, replaying a closed merge list
ClosedReplay ==
    /\ ExtendMode
    /\ self.continuing_subword_prefix = NoneOpt
    /\ self.end_of_word_suffix = NoneOpt
    /\ ListClosed
    /\ pc = "replay"

\* C32: without prefix and suffix, a merge list whose symbols are all
\* alphabet symbols or products of earlier entries is replayed to its end:
\* at every entry both symbols are in the vocabulary, every replay step moves
\* on to the next entry or leaves the finished replay, and none panics,
\* whatever the text, the empty one included
C32_ClosedListReplays ==
    /\ [](ClosedReplay /\ merge_idx < Len(merge_order) =>
            NextLeft \in DOMAIN word_to_id /\ NextRight \in DOMAIN word_to_id)
    /\ [][ClosedReplay =>
            /\ pc' /= "panic"
            /\ IF merge_idx < Len(merge_order)
               THEN pc' \in {"replay", "rewrite"} /\ Len(merges') = Len(merges) + 1
               ELSE pc' = "special" /\ merges' = merges]_vars

\* the replay of a list whose second entry uses the product of the first has
\* come to its end on an empty text, both rules emitted
C32_Witness ==
    /\ ExtendMode
    /\ self.continuing_subword_prefix = NoneOpt
    /\ self.end_of_word_suffix = NoneOpt
    /\ ListClosed
    /\ pc = "special"
    /\ word_counts = <<>>
    /\ Len(merge_order) = 2
    /\ merge_order[2][1] = merge_order[1][1] \o merge_order[1][2]
    /\ Len(merges) = 2

\* the places, sequence and position in it, at which the processor returned
\* the word w during the call
Returns(w) ==
    {ij \in (DOMAIN feed.iterator) \X (1..MaxSequenceWords) :
        /\ ij[2] \in DOMAIN feed.iterator[ij[1]]
        /\ feed.iterator[ij[1]][ij[2]] = w}

\* the words the processor returned during the call
ReturnedWords ==
    UNION {{feed.iterator[i][j] : j \in DOMAIN feed.iterator[i]} :
              i \in DOMAIN feed.iterator}

\* self.words holds, for each word returned during the call, the number of
\* times it was returned, and no other word
CountsOfCall ==
    /\ DOMAIN self_words = ReturnedWords
    /\ \A w \in ReturnedWords : self_words[w] = Cardinality(Returns(w))

\* C33: once feed has returned Ok, self.words maps every word to the number
\* of times the processor returned it over all sequences of the call, however
\* the items were mapped and the partial results reduced; what an earlier
\* call stored is replaced by the step that returns, not added to
C33_FeedCountsOfCall ==
    /\ [](pc = "fed" /\ Unwrap(feed.ret).ok => CountsOfCall)
    /\ [][(pc = "feed" /\ pc' = "fed" /\ Unwrap(feed'.ret).ok) =>
             /\ CountsOfCall'
             /\ \A w \in DOMAIN self_words \ ReturnedWords : w \notin DOMAIN self_words']_vars

\* feed has returned Ok for two sequences that share a word, one of them
\* holding it twice, and self.words holds the sum
C33_Witness ==
    /\ pc = "fed"
    /\ Unwrap(feed.ret).ok
    /\ Len(feed.iterator) >= 2
    /\ \E w \in ReturnedWords :
          /\ \E i, k \in DOMAIN feed.iterator :
                /\ i /= k
                /\ Cardinality({j \in DOMAIN feed.iterator[i] : feed.iterator[i][j] = w}) = 2
                /\ \E j \in DOMAIN feed.iterator[k] : feed.iterator[k][j] = w
          /\ self_words[w] >= 3

====
